---- MODULE Spec2Model ----
(***************************************************************************)
(* A model of the directive interpreter and the combat state machine of    *)
(* AITextRPG (src/game.py).                                                *)
(*                                                                         *)
(* Text is a sequence of tokens.  A token is an atomic piece of a Python   *)
(* string: a directive marker, a blank, a line break or a word.  The       *)
(* string a sequence stands for is the concatenation of its tokens; no     *)
(* token of the alphabet is a concatenation of others, so two sequences    *)
(* are equal exactly when the strings are.                                 *)
(***************************************************************************)
EXTENDS Integers, Sequences, FiniteSets, TLC

VARIABLES
    world_enemies,     \* self.world_data["enemies"]
    world_items,       \* self.world_data["items"]
    world_locations,   \* self.world_data["locations"]
    knowledge_base,    \* self.knowledge_base
    player,            \* self.player
    current_location,  \* self.current_location
    turn_count,        \* self.turn_count
    in_combat,         \* self.in_combat
    current_enemy,     \* self.current_enemy: <<>> is None, <<e>> is the dict e
    enemy_alias,       \* the index of the registry dict that self.current_enemy is
                       \* the same object as, 0 when it is an object of its own
    session,           \* the process: "running", "aborted" (uncaught exception), "exited"
    rounds,            \* valid combat turns taken in the encounter (observation only)
    last               \* what the last handler was given and did (observation only)

vars == <<world_enemies, world_items, world_locations, knowledge_base, player,
          current_location, turn_count, in_combat, current_enemy, enemy_alias,
          session, rounds, last>>

----------------------------------------------------------------------------
(* Bounds of the model *)

\* exploration actions processed in one run
MaxTurn == 2
\* valid combat turns played in one encounter
MaxRounds == 2
\* cap on the attack and defense an equipped item may raise the player to
MaxStat == 17
\* exploration actions processed in a run that fills the knowledge log
MaxLogTurn == 24
\* exploration actions processed in a run that is fought by attack alone
MaxArenaTurn == 1
\* combat turns played in an encounter that is fought by attack alone
MaxAttackRounds == 5
\* exploration actions processed in a long, uneventful run
MaxLongTurn == 45
\* combat turns played in an encounter of that run
MaxLongRounds == 1

----------------------------------------------------------------------------
(* Strings *)

COMBAT_TAG == "[COMBAT]"
ITEM_TAG == "[ITEM]"
LOCATION_TAG == "[LOCATION]"
EVENT_TAG == "[EVENT]"

\* str.lower() on one token
Lower(t) ==
    CASE t = "Ogre" -> "ogre"
      [] t = "OGRE" -> "ogre"
      [] t = "Shade" -> "shade"
      [] t = "Turtle" -> "turtle"
      [] t = "Sword" -> "sword"
      [] t = "Potion" -> "potion"
      [] t = "Shield" -> "shield"
      [] t = "Tonic" -> "tonic"
      [] t = "Charm" -> "charm"
      [] t = "CHARM" -> "charm"
      [] t = "Boost" -> "boost"
      [] t = "Smells" -> "smells"
      [] t = "Village" -> "village"
      [] t = "Cave" -> "cave"
      [] t = "Dark Cave" -> "dark cave"
      [] t = "Rain" -> "rain"
      [] t = "Health Potion" -> "health potion"
      [] t = "Heal" -> "heal"
      [] t = "Restores" -> "restores"
      [] t = "Attack" -> "attack"
      [] t = "A" -> "a"
      [] t = "Use" -> "use"
      [] t = "USE" -> "use"
      [] t = "Defend" -> "defend"
      [] t = "D" -> "d"
      [] t = "Flee" -> "flee"
      [] t = "F" -> "f"
      [] t = "Run" -> "run"
      [] t = "Consumable" -> "consumable"
      [] t = "Weapon" -> "weapon"
      [] t = "Armor" -> "armor"
      [] t = "[COMBAT]" -> "[combat]"
      [] t = "[ITEM]" -> "[item]"
      [] t = "[LOCATION]" -> "[location]"
      [] t = "[EVENT]" -> "[event]"
      [] OTHER -> t

\* str.lower() on a text
LowerText(s) == [i \in DOMAIN s |-> Lower(s[i])]

\* the characters str.strip() removes
IsSpace(t) == t \in {" ", "\n"}

\* str.strip()
Strip(s) ==
    LET keep == {i \in DOMAIN s : ~IsSpace(s[i])}
    IN  IF keep = {} THEN <<>>
        ELSE LET lo == CHOOSE i \in keep : \A j \in keep : i <= j
                 hi == CHOOSE i \in keep : \A j \in keep : j <= i
             IN  SubSeq(s, lo, hi)

\* sep in s
Contains(s, sep) == \E i \in DOMAIN s : s[i] = sep

\* s.split(sep): the list of the pieces between the occurrences of sep
RECURSIVE Split(_, _)
Split(s, sep) ==
    IF ~Contains(s, sep) THEN <<s>>
    ELSE LET i == CHOOSE k \in DOMAIN s : s[k] = sep /\ \A j \in 1..(k-1) : s[j] # sep
         IN  <<SubSeq(s, 1, i - 1)>> \o Split(SubSeq(s, i + 1, Len(s)), sep)

\* parts[1].strip().split("\n")[0].strip()
PayloadOf(part) == Strip(Split(Strip(part), "\n")[1])

\* case-insensitive equality of two names
SameName(a, b) == LowerText(a) = LowerText(b)

----------------------------------------------------------------------------
(* The session as one value: the fields of self, the state of the process  *)
(* and what the handler in progress has done so far.                       *)

Self ==
    [world_enemies |-> world_enemies, world_items |-> world_items,
     world_locations |-> world_locations, knowledge_base |-> knowledge_base,
     player |-> player, current_location |-> current_location,
     turn_count |-> turn_count, in_combat |-> in_combat,
     current_enemy |-> current_enemy, enemy_alias |-> enemy_alias,
     session |-> session,
     calls |-> <<>>, hits |-> <<>>, enemy_health |-> <<>>, shown |-> <<>>]

\* the handler in progress enters method name
Enter(g, name) == [g EXCEPT !.calls = Append(@, name)]

\* an exception nobody catches: main() catches KeyboardInterrupt only
Raise(g) == [g EXCEPT !.session = "aborted"]

Min(a, b) == IF a <= b THEN a ELSE b
Max(a, b) == IF a >= b THEN a ELSE b

\* the index of the first record of a list whose name matches, 0 when none does
FirstNamed(list, name) ==
    LET hit == {i \in DOMAIN list : SameName(list[i].name, name)}
    IN  IF hit = {} THEN 0 ELSE CHOOSE i \in hit : \A j \in hit : i <= j

----------------------------------------------------------------------------
(* Knowledge log *)

KnowledgeLimit == 50

\* add_to_knowledge_base cutting the log to its first entries, [:50]
add_to_knowledge_base_oldest_kept(g, event) ==
    LET formatted_event == <<"Turn ", ToString(g.turn_count), ": ">> \o event
        kb == Append(g.knowledge_base, formatted_event)
    IN  [g EXCEPT !.knowledge_base =
            IF Len(kb) > KnowledgeLimit THEN SubSeq(kb, 1, KnowledgeLimit) ELSE kb]

add_to_knowledge_base(g, event) ==
    LET formatted_event == <<"Turn ", ToString(g.turn_count), ": ">> \o event
        kb == Append(g.knowledge_base, formatted_event)
    IN  [g EXCEPT !.knowledge_base =
            IF Len(kb) > KnowledgeLimit
            THEN SubSeq(kb, Len(kb) - KnowledgeLimit + 1, Len(kb))
            ELSE kb]

----------------------------------------------------------------------------
(* Directives *)

\* random.randint(1, min(10, self.turn_count // 5 + 1))
Difficulties(turns) == 1..Min(10, (turns \div 5) + 1)

\* start_combat giving a synthesized enemy the attack 5 + difficulty
start_combat_weak(g, enemy_name, difficulty) ==
    LET g0 == Enter(g, "start_combat")
        i == FirstNamed(g0.world_enemies, enemy_name)
        enemy ==
            IF i # 0 THEN g0.world_enemies[i]
            ELSE [name |-> enemy_name,
                  difficulty |-> difficulty,
                  health |-> 20 * difficulty,
                  attack |-> 5 + difficulty,
                  defense |-> 2 + difficulty,
                  description |-> <<"A mysterious ">> \o enemy_name \o <<".">>]
        g1 == [g0 EXCEPT !.in_combat = TRUE, !.current_enemy = <<enemy>>,
                         !.enemy_alias = 0]
    IN  add_to_knowledge_base(g1, <<"Encountered and fought ">> \o enemy.name)

\* start_combat keeping the registry's dict as the session's enemy, no copy()
start_combat_uncopied(g, enemy_name, difficulty) ==
    LET g0 == Enter(g, "start_combat")
        i == FirstNamed(g0.world_enemies, enemy_name)
        enemy ==
            IF i # 0 THEN g0.world_enemies[i]
            ELSE [name |-> enemy_name,
                  difficulty |-> difficulty,
                  health |-> 20 * difficulty,
                  attack |-> 5 + difficulty * 2,
                  defense |-> 2 + difficulty,
                  description |-> <<"A mysterious ">> \o enemy_name \o <<".">>]
        g1 == [g0 EXCEPT !.in_combat = TRUE, !.current_enemy = <<enemy>>,
                         !.enemy_alias = i]
    IN  add_to_knowledge_base(g1, <<"Encountered and fought ">> \o enemy.name)

start_combat(g, enemy_name, difficulty) ==
    LET g0 == Enter(g, "start_combat")
        i == FirstNamed(g0.world_enemies, enemy_name)
        enemy ==
            IF i # 0 THEN g0.world_enemies[i]
            ELSE [name |-> enemy_name,
                  difficulty |-> difficulty,
                  health |-> 20 * difficulty,
                  attack |-> 5 + difficulty * 2,
                  defense |-> 2 + difficulty,
                  description |-> <<"A mysterious ">> \o enemy_name \o <<".">>]
        \* enemy.copy(): the session's dict is a new object
        g1 == [g0 EXCEPT !.in_combat = TRUE, !.current_enemy = <<enemy>>,
                         !.enemy_alias = 0]
    IN  add_to_knowledge_base(g1, <<"Encountered and fought ">> \o enemy.name)

\* find_item adding to the registry the item it found there as well
find_item_always_appended(g, item_name) ==
    LET g0 == Enter(g, "find_item")
        i == FirstNamed(g0.world_items, item_name)
        item ==
            IF i # 0 THEN g0.world_items[i]
            ELSE [name |-> item_name,
                  type |-> "misc",
                  effect |-> <<"Unknown">>,
                  description |-> <<"A mysterious ">> \o item_name \o <<".">>]
        g1 == [g0 EXCEPT !.world_items = Append(@, item)]
        g2 == [g1 EXCEPT !.player.inventory = Append(@, item)]
    IN  add_to_knowledge_base(g2, <<"Found ">> \o item.name)

find_item(g, item_name) ==
    LET g0 == Enter(g, "find_item")
        i == FirstNamed(g0.world_items, item_name)
        item ==
            IF i # 0 THEN g0.world_items[i]
            ELSE [name |-> item_name,
                  type |-> "misc",
                  effect |-> <<"Unknown">>,
                  description |-> <<"A mysterious ">> \o item_name \o <<".">>]
        g1 == IF i # 0 THEN g0
              ELSE [g0 EXCEPT !.world_items = Append(@, item)]
        g2 == [g1 EXCEPT !.player.inventory = Append(@, item)]
    IN  add_to_knowledge_base(g2, <<"Found ">> \o item.name)

\* the keyword parameters of generate_ai_response(self, prompt, system_prompt="")
GenerateAiResponseParams == {"prompt", "system_prompt"}

LocationTypes == {"settlement", "dungeon", "wilderness", "landmark"}

\* what generate_ai_response returns: the model's text, or its error message
Descriptions ==
    {<<"A place.">>,
     <<"Error communicating with AI model. Please ensure Ollama is running.">>}

change_location(g, location_name, location_type, description) ==
    LET g0 == Enter(g, "change_location")
        old_location == g0.current_location
        g1 == [g0 EXCEPT !.current_location = location_name]
        i == FirstNamed(g1.world_locations, location_name)
        logged(h) ==
            add_to_knowledge_base(h,
                <<"Traveled from ">> \o old_location \o <<" to ">> \o location_name)
    IN  IF i # 0 THEN logged(g1)
        ELSE IF "max_tokens" \notin GenerateAiResponseParams
             \* generate_ai_response(prompt, system_prompt, max_tokens=200): TypeError
             THEN Raise(g1)
             ELSE logged([g1 EXCEPT !.world_locations =
                     Append(@, [name |-> location_name,
                                type |-> location_type,
                                description |-> description])])

\* the guards of one block of process_response_tags: the tag is in the
\* response and the split has a second part; nothing runs once an exception
\* has left the method
Tagged(g, response, tag) ==
    /\ g.session = "running"
    /\ Contains(response, tag)
    /\ Len(Split(response, tag)) > 1

process_response_tags(g, response, difficulty, location_type, description) ==
    LET g1 == IF Tagged(g, response, COMBAT_TAG)
              THEN start_combat(g, PayloadOf(Split(response, COMBAT_TAG)[2]), difficulty)
              ELSE g
        g2 == IF Tagged(g1, response, ITEM_TAG)
              THEN find_item(g1, PayloadOf(Split(response, ITEM_TAG)[2]))
              ELSE g1
        g3 == IF Tagged(g2, response, LOCATION_TAG)
              THEN change_location(g2, PayloadOf(Split(response, LOCATION_TAG)[2]),
                                   location_type, description)
              ELSE g2
    IN  IF Tagged(g3, response, EVENT_TAG)
        THEN add_to_knowledge_base(g3, PayloadOf(Split(response, EVENT_TAG)[2]))
        ELSE g3

\* "".join(parts)
RECURSIVE Join(_)
Join(parts) == IF parts = <<>> THEN <<>> ELSE Head(parts) \o Join(Tail(parts))

\* text.split("\n", 1)[1]: what follows the first line break
AfterNewline(text) ==
    LET i == CHOOSE k \in DOMAIN text : text[k] = "\n" /\ \A j \in 1..(k-1) : text[j] # "\n"
    IN  SubSeq(text, i + 1, Len(text))

\* one round of the loop of remove_tags
RemoveTag(text, tag) ==
    IF Contains(text, tag)
    THEN LET parts == Split(text, tag)
         IN  IF Len(parts) > 1 /\ Contains(parts[2], "\n")
             THEN Join([parts EXCEPT ![2] = AfterNewline(parts[2])])
             ELSE Join(parts)
    ELSE text

remove_tags(text) ==
    Strip(RemoveTag(RemoveTag(RemoveTag(RemoveTag(text, COMBAT_TAG), ITEM_TAG),
                              LOCATION_TAG), EVENT_TAG))

\* print(text), which an exception raised before it leaves undone
Show(g, text) ==
    IF g.session # "running" THEN g ELSE [g EXCEPT !.shown = <<text>>]

\* shown: <<>> while nothing is displayed, <<text>> once the response is
process_player_action(g, response, difficulty, location_type, description) ==
    LET g0 == Enter(g, "process_player_action")
        g1 == [g0 EXCEPT !.turn_count = @ + 1]
        g2 == process_response_tags(g1, response, difficulty, location_type, description)
    IN  Show(g2, remove_tags(response))

----------------------------------------------------------------------------
(* Item use *)

\* "heal" in token or "health" in token, for a token already lowered
HasHeal(t) == t \in {"heal", "heals", "healing", "health"}

\* the tokens that are runs of digits, and their values
IsNumber(t) == t \in {"3", "7", "20", "50"}
NumberOf(t) ==
    CASE t = "3" -> 3 [] t = "7" -> 7 [] t = "20" -> 20 [] t = "50" -> 50

\* re.search(r'\d+', effect): the first run of digits, or default
FirstNumber(effect, default) ==
    LET hit == {i \in DOMAIN effect : IsNumber(effect[i])}
    IN  IF hit = {} THEN default
        ELSE NumberOf(effect[CHOOSE i \in hit : \A j \in hit : i <= j])

\* re.search(r'\+(\d+)', effect): the first run of digits right after a "+", or default
FirstBonus(effect, default) ==
    LET hit == {i \in DOMAIN effect :
                    i > 1 /\ effect[i - 1] = "+" /\ IsNumber(effect[i])}
    IN  IF hit = {} THEN default
        ELSE NumberOf(effect[CHOOSE i \in hit : \A j \in hit : i <= j])

\* list.pop(i)
Pop(list, i) == SubSeq(list, 1, i - 1) \o SubSeq(list, i + 1, Len(list))

\* use_item taking the bonus of a weapon or an armor from the first number of
\* the effect, with or without a "+" before it
use_item_any_number(g, item_name) ==
    LET g0 == Enter(g, "use_item")
        item_index == FirstNamed(g0.player.inventory, item_name)
    IN  IF item_index = 0 THEN g0
        ELSE
        LET item == g0.player.inventory[item_index]
            effect == LowerText(item.effect)
        IN  IF Lower(item.type) = "consumable"
            THEN LET g1 == [g0 EXCEPT !.player.inventory = Pop(@, item_index)]
                 IN  IF \E i \in DOMAIN effect : HasHeal(effect[i])
                     THEN LET heal_amount == FirstNumber(item.effect, 20)
                          IN  [g1 EXCEPT !.player.health =
                                  Min(g1.player.max_health, @ + heal_amount)]
                     ELSE g1
            ELSE IF Lower(item.type) = "weapon"
            THEN [g0 EXCEPT !.player.attack = @ + FirstNumber(item.effect, 5)]
            ELSE IF Lower(item.type) = "armor"
            THEN [g0 EXCEPT !.player.defense = @ + FirstNumber(item.effect, 3)]
            ELSE g0

\* use_item spending a consumable only when its effect heals
use_item_flavor_kept(g, item_name) ==
    LET g0 == Enter(g, "use_item")
        item_index == FirstNamed(g0.player.inventory, item_name)
    IN  IF item_index = 0 THEN g0
        ELSE
        LET item == g0.player.inventory[item_index]
            effect == LowerText(item.effect)
        IN  IF Lower(item.type) = "consumable"
            THEN IF \E i \in DOMAIN effect : HasHeal(effect[i])
                 THEN LET g1 == [g0 EXCEPT !.player.inventory = Pop(@, item_index)]
                          heal_amount == FirstNumber(item.effect, 20)
                      IN  [g1 EXCEPT !.player.health =
                              Min(g1.player.max_health, @ + heal_amount)]
                 ELSE g0
            ELSE IF Lower(item.type) = "weapon"
            THEN [g0 EXCEPT !.player.attack = @ + FirstBonus(item.effect, 5)]
            ELSE IF Lower(item.type) = "armor"
            THEN [g0 EXCEPT !.player.defense = @ + FirstBonus(item.effect, 3)]
            ELSE g0

use_item(g, item_name) ==
    LET g0 == Enter(g, "use_item")
        item_index == FirstNamed(g0.player.inventory, item_name)
    IN  IF item_index = 0 THEN g0
        ELSE
        LET item == g0.player.inventory[item_index]
            effect == LowerText(item.effect)
        IN  IF Lower(item.type) = "consumable"
            THEN LET g1 == [g0 EXCEPT !.player.inventory = Pop(@, item_index)]
                 IN  IF \E i \in DOMAIN effect : HasHeal(effect[i])
                     THEN LET heal_amount == FirstNumber(item.effect, 20)
                          IN  [g1 EXCEPT !.player.health =
                                  Min(g1.player.max_health, @ + heal_amount)]
                     ELSE g1
            ELSE IF Lower(item.type) = "weapon"
            THEN [g0 EXCEPT !.player.attack = @ + FirstBonus(item.effect, 5)]
            ELSE IF Lower(item.type) = "armor"
            THEN [g0 EXCEPT !.player.defense = @ + FirstBonus(item.effect, 3)]
            ELSE g0

----------------------------------------------------------------------------
(* Combat *)

\* random.randint(lo, hi)
RandInt(lo, hi) == lo..hi

\* subtract damage from the session's enemy, noting its health before and after
HurtEnemy(g, damage) ==
    LET h == [g EXCEPT !.current_enemy[1].health = @ - damage,
                       !.enemy_health = Append(@, g.current_enemy[1].health - damage)]
    IN  IF g.enemy_alias = 0 THEN h
        ELSE [h EXCEPT !.world_enemies[g.enemy_alias].health = @ - damage]

\* subtract damage from the player, noting which method dealt it
HurtPlayer(g, by, damage) ==
    [g EXCEPT !.player.health = @ - damage, !.hits = Append(@, by)]

\* player_attack taking the critical bonus from the roll, not from the damage
player_attack_bonus_of_roll(g, base_damage, critical) ==
    LET g0 == Enter(g, "player_attack")
        damage == Max(1, base_damage - (g0.current_enemy[1].defense \div 2))
        g1 == HurtEnemy(g0, damage)
    IN  IF critical THEN HurtEnemy(g1, base_damage \div 2) ELSE g1

\* player_attack without the floor of one point of damage
player_attack_unfloored(g, base_damage, critical) ==
    LET g0 == Enter(g, "player_attack")
        damage == Max(0, base_damage - (g0.current_enemy[1].defense \div 2))
        g1 == HurtEnemy(g0, damage)
    IN  IF critical THEN HurtEnemy(g1, damage \div 2) ELSE g1

player_attack(g, base_damage, critical) ==
    LET g0 == Enter(g, "player_attack")
        damage == Max(1, base_damage - (g0.current_enemy[1].defense \div 2))
        g1 == HurtEnemy(g0, damage)
    IN  IF critical THEN HurtEnemy(g1, damage \div 2) ELSE g1

enemy_attack(g, base_damage) ==
    LET g0 == Enter(g, "enemy_attack")
        damage == Max(1, base_damage - (g0.player.defense \div 2))
    IN  HurtPlayer(g0, "enemy_attack", damage)

\* player_defend keeping the bonus it lent the defense
player_defend_unreverted(g, base_damage) ==
    LET g0 == Enter(g, "player_defend")
        temp_defense == g0.player.defense \div 2
        g1 == [g0 EXCEPT !.player.defense = @ + temp_defense]
        heal_amount == g1.player.max_health \div 20
        g2 == [g1 EXCEPT !.player.health = Min(g1.player.max_health, @ + heal_amount)]
        damage == Max(1, base_damage - (g2.player.defense \div 2))
    IN  HurtPlayer(g2, "player_defend", damage)

\* player_defend healing past max_health
player_defend_unclamped(g, base_damage) ==
    LET g0 == Enter(g, "player_defend")
        temp_defense == g0.player.defense \div 2
        g1 == [g0 EXCEPT !.player.defense = @ + temp_defense]
        heal_amount == g1.player.max_health \div 20
        g2 == [g1 EXCEPT !.player.health = @ + heal_amount]
        damage == Max(1, base_damage - (g2.player.defense \div 2))
        g3 == HurtPlayer(g2, "player_defend", damage)
    IN  [g3 EXCEPT !.player.defense = @ - temp_defense]

player_defend(g, base_damage) ==
    LET g0 == Enter(g, "player_defend")
        temp_defense == g0.player.defense \div 2
        g1 == [g0 EXCEPT !.player.defense = @ + temp_defense]
        heal_amount == g1.player.max_health \div 20
        g2 == [g1 EXCEPT !.player.health = Min(g1.player.max_health, @ + heal_amount)]
        damage == Max(1, base_damage - (g2.player.defense \div 2))
        g3 == HurtPlayer(g2, "player_defend", damage)
    IN  [g3 EXCEPT !.player.defense = @ - temp_defense]

\* a flee chance of 0.5 + self.turn_count / 100
FleeCanFail_from_half(turns) == 50 + turns < 100

\* random.random() < 0.6 + self.turn_count / 100 can be false
FleeCanFail(turns) == 60 + turns < 100

\* attempt_flee punishing with the floor of an ordinary blow, max(1, ...)
attempt_flee_floor_one(g, escaped, base_damage) ==
    LET g0 == Enter(g, "attempt_flee")
    IN  IF escaped
        THEN LET g1 == [g0 EXCEPT !.in_combat = FALSE, !.current_enemy = <<>>,
                                  !.enemy_alias = 0]
             IN  IF g1.current_enemy = <<>> THEN Raise(g1)
                 ELSE add_to_knowledge_base(g1,
                        <<"Fled from combat with ">> \o g1.current_enemy[1].name)
        ELSE LET damage == Max(1, base_damage - (g0.player.defense \div 3))
             IN  HurtPlayer(g0, "attempt_flee", damage)

attempt_flee(g, escaped, base_damage) ==
    LET g0 == Enter(g, "attempt_flee")
    IN  IF escaped
        THEN LET g1 == [g0 EXCEPT !.in_combat = FALSE, !.current_enemy = <<>>,
                                  !.enemy_alias = 0]
             IN  \* self.current_enemy['name'] with current_enemy None: TypeError
                 IF g1.current_enemy = <<>> THEN Raise(g1)
                 ELSE add_to_knowledge_base(g1,
                        <<"Fled from combat with ">> \o g1.current_enemy[1].name)
        ELSE LET damage == Max(2, base_damage - (g0.player.defense \div 3))
             IN  HurtPlayer(g0, "attempt_flee", damage)

generate_combat_reward(g) ==
    LET g0 == Enter(g, "generate_combat_reward")
        item == [name |-> <<"Health Potion">>,
                 type |-> "consumable",
                 effect |-> <<"Restores", " ", "50", " ", "health">>,
                 description |->
                    <<"A small vial containing a red liquid that heals wounds.">>]
    IN  [g0 EXCEPT !.player.inventory = Append(@, item)]

\* list.remove(x): the first element equal to x goes
Remove(list, x) ==
    Pop(list, CHOOSE i \in DOMAIN list : list[i] = x /\ \A j \in 1..(i-1) : list[j] # x)

\* resolve_combat healing the winner only along with a reward
resolve_combat_heal_in_reward(g, player_won, rewarded, robbed, lost) ==
    LET g0 == Enter(g, "resolve_combat")
        name == g0.current_enemy[1].name
        g1 ==
            IF player_won
            THEN LET a == IF rewarded THEN generate_combat_reward(g0) ELSE g0
                     heal_amount == a.player.max_health \div 10
                     b == IF rewarded
                          THEN [a EXCEPT !.player.health =
                                  Min(a.player.max_health, @ + heal_amount)]
                          ELSE a
                 IN  add_to_knowledge_base(b, <<"Defeated ">> \o name \o <<" in combat">>)
            ELSE LET a == [g0 EXCEPT !.player.health = g0.player.max_health \div 4]
                     inv == a.player.inventory
                     b == IF inv # <<>> /\ robbed
                          THEN [a EXCEPT !.player.inventory =
                                  Remove(inv, inv[((lost - 1) % Len(inv)) + 1])]
                          ELSE a
                 IN  add_to_knowledge_base(b,
                        <<"Was defeated by ">> \o name \o <<" but mysteriously revived">>)
    IN  [g1 EXCEPT !.in_combat = FALSE, !.current_enemy = <<>>, !.enemy_alias = 0]

\* resolve_combat taking every item equal to the one picked
resolve_combat_all_lost(g, player_won, rewarded, robbed, lost) ==
    LET g0 == Enter(g, "resolve_combat")
        name == g0.current_enemy[1].name
        g1 ==
            IF player_won
            THEN LET a == IF rewarded THEN generate_combat_reward(g0) ELSE g0
                     heal_amount == a.player.max_health \div 10
                     b == [a EXCEPT !.player.health =
                              Min(a.player.max_health, @ + heal_amount)]
                 IN  add_to_knowledge_base(b, <<"Defeated ">> \o name \o <<" in combat">>)
            ELSE LET a == [g0 EXCEPT !.player.health = g0.player.max_health \div 4]
                     inv == a.player.inventory
                     b == IF inv # <<>> /\ robbed
                          THEN [a EXCEPT !.player.inventory =
                                  SelectSeq(inv, LAMBDA x :
                                              x # inv[((lost - 1) % Len(inv)) + 1])]
                          ELSE a
                 IN  add_to_knowledge_base(b,
                        <<"Was defeated by ">> \o name \o <<" but mysteriously revived">>)
    IN  [g1 EXCEPT !.in_combat = FALSE, !.current_enemy = <<>>, !.enemy_alias = 0]

\* resolve_combat leaving the beaten session's enemy in place
resolve_combat_enemy_kept(g, player_won, rewarded, robbed, lost) ==
    LET g0 == Enter(g, "resolve_combat")
        name == g0.current_enemy[1].name
        g1 ==
            IF player_won
            THEN LET a == IF rewarded THEN generate_combat_reward(g0) ELSE g0
                     heal_amount == a.player.max_health \div 10
                     b == [a EXCEPT !.player.health =
                              Min(a.player.max_health, @ + heal_amount)]
                 IN  add_to_knowledge_base(b, <<"Defeated ">> \o name \o <<" in combat">>)
            ELSE LET a == [g0 EXCEPT !.player.health = g0.player.max_health \div 4]
                     inv == a.player.inventory
                     b == IF inv # <<>> /\ robbed
                          THEN [a EXCEPT !.player.inventory =
                                  Remove(inv, inv[((lost - 1) % Len(inv)) + 1])]
                          ELSE a
                 IN  add_to_knowledge_base(b,
                        <<"Was defeated by ">> \o name \o <<" but mysteriously revived">>)
    IN  [g1 EXCEPT !.in_combat = FALSE]

\* rewarded: random.random() < 0.6; robbed: random.random() < 0.5;
\* lost: the index random.choice picks, reduced to the inventory's length
resolve_combat(g, player_won, rewarded, robbed, lost) ==
    LET g0 == Enter(g, "resolve_combat")
        name == g0.current_enemy[1].name
        g1 ==
            IF player_won
            THEN LET a == IF rewarded THEN generate_combat_reward(g0) ELSE g0
                     heal_amount == a.player.max_health \div 10
                     b == [a EXCEPT !.player.health =
                              Min(a.player.max_health, @ + heal_amount)]
                 IN  add_to_knowledge_base(b, <<"Defeated ">> \o name \o <<" in combat">>)
            ELSE LET a == [g0 EXCEPT !.player.health = g0.player.max_health \div 4]
                     inv == a.player.inventory
                     b == IF inv # <<>> /\ robbed
                          THEN [a EXCEPT !.player.inventory =
                                  Remove(inv, inv[((lost - 1) % Len(inv)) + 1])]
                          ELSE a
                 IN  add_to_knowledge_base(b,
                        <<"Was defeated by ">> \o name \o <<" but mysteriously revived">>)
    IN  [g1 EXCEPT !.in_combat = FALSE, !.current_enemy = <<>>, !.enemy_alias = 0]

\* the chain of combat_turn matching on action.lower().strip()
Dispatch_stripped(action) ==
    LET act == Strip(LowerText(action))
    IN  IF act \in {<<"attack">>, <<"a">>} THEN "attack"
        ELSE IF Len(act) >= 2 /\ act[1] = "use" /\ act[2] = " " THEN "use"
        ELSE IF act \in {<<"defend">>, <<"d">>} THEN "defend"
        ELSE IF act \in {<<"flee">>, <<"f">>, <<"run">>} THEN "flee"
        ELSE "invalid"

\* the if/elif chain of combat_turn on action.lower()
Dispatch(action) ==
    LET act == LowerText(action)
    IN  IF act \in {<<"attack">>, <<"a">>} THEN "attack"
        ELSE IF Len(act) >= 2 /\ act[1] = "use" /\ act[2] = " " THEN "use"
        ELSE IF act \in {<<"defend">>, <<"d">>} THEN "defend"
        ELSE IF act \in {<<"flee">>, <<"f">>, <<"run">>} THEN "flee"
        ELSE "invalid"

\* lines 486-498 of combat_turn: the player's action
combat_action(g, action, r) ==
    LET g0 == [Enter(g, "combat_turn") EXCEPT
                  !.enemy_health = <<g.current_enemy[1].health>>]
        kind == Dispatch(action)
    IN  CASE kind = "attack" -> player_attack(g0, r.player_roll, r.critical)
          [] kind = "use" -> use_item(g0, Strip(SubSeq(action, 3, Len(action))))
          [] kind = "defend" -> player_defend(g0, r.counter_roll)
          [] kind = "flee" -> attempt_flee(g0, r.escaped, r.punish_roll)
          [] OTHER -> g0

\* combat_turn resolving a victory only when the enemy's health is below 0
combat_turn_victory_below_zero(g, action, r) ==
    LET acted == combat_action(g, action, r)
    IN  IF Dispatch(action) = "invalid" \/ acted.session # "running" THEN acted
        ELSE IF acted.current_enemy[1].health < 0
        THEN resolve_combat(acted, TRUE, r.rewarded, r.robbed, r.lost)
        ELSE LET hit == enemy_attack(acted, r.enemy_roll)
             IN  IF hit.player.health <= 0
                 THEN resolve_combat(hit, FALSE, r.rewarded, r.robbed, r.lost)
                 ELSE hit

\* combat_turn resolving a defeat only when the player's health is below 0
combat_turn_defeat_below_zero(g, action, r) ==
    LET acted == combat_action(g, action, r)
    IN  IF Dispatch(action) = "invalid" \/ acted.session # "running" THEN acted
        ELSE IF acted.current_enemy[1].health <= 0
        THEN resolve_combat(acted, TRUE, r.rewarded, r.robbed, r.lost)
        ELSE LET hit == enemy_attack(acted, r.enemy_roll)
             IN  IF hit.player.health < 0
                 THEN resolve_combat(hit, FALSE, r.rewarded, r.robbed, r.lost)
                 ELSE hit

\* combat_turn letting the enemy act before it looks at the enemy's health
combat_turn_enemy_first(g, action, r) ==
    LET acted == combat_action(g, action, r)
    IN  IF Dispatch(action) = "invalid" \/ acted.session # "running" THEN acted
        ELSE LET hit == enemy_attack(acted, r.enemy_roll)
             IN  IF hit.current_enemy[1].health <= 0
                 THEN resolve_combat(hit, TRUE, r.rewarded, r.robbed, r.lost)
                 ELSE IF hit.player.health <= 0
                 THEN resolve_combat(hit, FALSE, r.rewarded, r.robbed, r.lost)
                 ELSE hit

\* r: the random draws of the turn
combat_turn(g, action, r) ==
    LET acted == combat_action(g, action, r)
    IN  IF Dispatch(action) = "invalid" \/ acted.session # "running" THEN acted
        ELSE IF acted.current_enemy[1].health <= 0
        THEN resolve_combat(acted, TRUE, r.rewarded, r.robbed, r.lost)
        ELSE LET hit == enemy_attack(acted, r.enemy_roll)
             IN  IF hit.player.health <= 0
                 THEN resolve_combat(hit, FALSE, r.rewarded, r.robbed, r.lost)
                 ELSE hit

Only(when, S, none) == IF when THEN S ELSE {none}

\* The rolls of a blow at the player that lead to different states: every roll
\* that leaves the player standing, and the weakest roll that does not (once
\* health is at or below zero the turn ends in resolve_combat(False), which
\* resets it, whatever the roll was).
Telling(rolls, health, defense, floor) ==
    LET Fells(r) == health - Max(floor, r - defense) <= 0
        fatal == {r \in rolls : Fells(r)}
    IN  {r \in rolls : ~Fells(r)}
            \cup (IF fatal = {} THEN {}
                  ELSE {CHOOSE r \in fatal : \A q \in fatal : r <= q})

\* the draws the player's action may make in state g
ActionDraws(g, action) ==
    LET kind == Dispatch(action)
        enemy == g.current_enemy[1]
        healed == Min(g.player.max_health,
                      g.player.health + (g.player.max_health \div 20))
        raised == g.player.defense + (g.player.defense \div 2)
    IN  [player_roll : Only(kind = "attack",
                            RandInt(g.player.attack \div 2, g.player.attack), 0),
         critical : Only(kind = "attack", BOOLEAN, FALSE),
         counter_roll : Only(kind = "defend",
                             Telling(RandInt(enemy.attack \div 3, enemy.attack \div 2),
                                     healed, raised \div 2, 1), 0),
         escaped : Only(kind = "flee",
                        IF FleeCanFail(g.turn_count) THEN BOOLEAN ELSE {TRUE}, FALSE),
         punish_roll : Only(kind = "flee",
                            Telling(RandInt(enemy.attack \div 2, enemy.attack),
                                    g.player.health, g.player.defense \div 3, 2), 0)]

\* the draws the rest of the turn may make once the action left the session in h:
\* none when the turn is over, the reward when the enemy is down, else the enemy's
\* roll and, when its hardest blow fells the player, the loss of an item
FinishDraws(h, action) ==
    LET over == Dispatch(action) = "invalid" \/ h.session # "running"
        won == ~over /\ h.current_enemy[1].health <= 0
        fight == ~over /\ ~won
        attack == IF fight THEN h.current_enemy[1].attack ELSE 0
        felled == fight /\ h.player.inventory # <<>>
                    /\ h.player.health - Max(1, attack - (h.player.defense \div 2)) <= 0
    IN  [enemy_roll : Only(fight, Telling(RandInt(attack \div 2, attack),
                                          h.player.health, h.player.defense \div 2, 1), 0),
         rewarded : Only(won, BOOLEAN, FALSE),
         robbed : Only(felled, BOOLEAN, FALSE),
         lost : Only(felled, 1..Len(h.player.inventory), 1)]

\* the draws of a whole turn: those of the action and those of the rest
TurnDraws(a, f) ==
    [player_roll |-> a.player_roll, critical |-> a.critical,
     counter_roll |-> a.counter_roll, escaped |-> a.escaped,
     punish_roll |-> a.punish_roll, enemy_roll |-> f.enemy_roll,
     rewarded |-> f.rewarded, robbed |-> f.robbed, lost |-> f.lost]

----------------------------------------------------------------------------
(* Exploration *)

quit_game(g) == [Enter(g, "quit_game") EXCEPT !.session = "exited"]

\* the commands exploration_turn answers itself
QuitWords == {<<"quit">>, <<"exit">>, <<"q">>}
ShowWords ==
    {<<"help">>, <<"h">>, <<"?">>, <<"status">>, <<"stats">>, <<"stat">>,
     <<"inventory">>, <<"inv">>, <<"i">>, <<"history">>, <<"events">>, <<"kb">>}

exploration_turn(g, action, response, difficulty, location_type, description) ==
    LET g0 == Enter(g, "exploration_turn")
        act == LowerText(action)
    IN  IF act \in QuitWords THEN quit_game(g0)
        ELSE IF act \in ShowWords THEN g0
        ELSE process_player_action(g0, response, difficulty, location_type, description)

----------------------------------------------------------------------------
(* The world the setup produced, and the inputs of a run *)

Ogre ==
    [name |-> <<"Ogre">>, difficulty |-> 9, health |-> 40, attack |-> 196,
     defense |-> 12, description |-> <<"A towering brute.">>]

Potion ==
    [name |-> <<"Potion">>, type |-> "Consumable",
     effect |-> <<"Heal", " ", "20">>, description |-> <<"A green draught.">>]

Sword ==
    [name |-> <<"Sword">>, type |-> "weapon",
     effect |-> <<"+", "7", " ", "damage">>, description |-> <<"A plain blade.">>]

Shield ==
    [name |-> <<"Shield">>, type |-> "Armor",
     effect |-> <<"Boost", " ", "3">>, description |-> <<"A round buckler.">>]

Tonic ==
    [name |-> <<"Tonic">>, type |-> "consumable",
     effect |-> <<"Smells", " ", "odd">>, description |-> <<"A cloudy flask.">>]

Village ==
    [name |-> <<"Village">>, type |-> "settlement",
     description |-> <<"A quiet hamlet.">>]

\* what the narrative collaborator answers in a played run
GameResponses ==
    {<<"A shape forms.", " ", COMBAT_TAG, " ", "Shade">>,
     <<"It roars.", " ", COMBAT_TAG, " ", "ogre">>,
     <<"You walk.", " ", LOCATION_TAG, " ", "Cave">>}

\* the shapes a response with one directive takes: the marker last, followed by
\* blanks only, by its payload, by its payload and more text, or by a line break
\* and then text
OneTag(tag, word) ==
    {<<"Prose.", tag>>,
     <<"Prose.", " ", tag, " ">>,
     <<tag, "\n">>,
     <<"Prose.", " ", tag, " ", word>>,
     <<tag, word, "\n", "More.">>,
     <<tag, "\n", word>>}

\* the word each directive is given in a response with two of them
WordOf(tag) ==
    CASE tag = COMBAT_TAG -> "ogre"
      [] tag = ITEM_TAG -> "Sword"
      [] tag = LOCATION_TAG -> "village"
      [] tag = EVENT_TAG -> "Rain"

TagSet == {COMBAT_TAG, ITEM_TAG, LOCATION_TAG, EVENT_TAG}

\* two directives, each on a line of its own, in either order
TwoTags ==
    {<<"Prose.", " ", t, " ", WordOf(t), "\n", u, " ", WordOf(u)>> :
        <<t, u>> \in {p \in TagSet \X TagSet : p[1] # p[2]}}

\* the order in which process_response_tags looks for the markers
TagOrder == <<COMBAT_TAG, ITEM_TAG, LOCATION_TAG, EVENT_TAG>>

\* two directives or more, each on a line of its own with its payload, the
\* location one the registry holds or one it lacks
ManyTags ==
    {<<"Prose.", "\n">> \o
        Join([i \in 1..4 |->
                IF TagOrder[i] \in present
                THEN <<TagOrder[i], " ",
                       IF TagOrder[i] = LOCATION_TAG THEN place ELSE WordOf(TagOrder[i]),
                       "\n">>
                ELSE <<>>]) :
        present \in {S \in SUBSET TagSet : Cardinality(S) >= 2},
        place \in {"village", "Cave"}}

\* what the narrative collaborator answers, for the directive interpreter
\* prose that goes on after the line of its tag
Passages ==
    {<<"You see a cave.", " ", LOCATION_TAG, " ", "Dark Cave", "\n", "It is cold.">>,
     <<"You see a cave.", " ", LOCATION_TAG, " ", "village", "\n", "It is cold.">>,
     <<"You see a cave.", " ", EVENT_TAG, " ", "Rain", "\n", "It is cold.">>}

DirectiveResponses ==
    {<<"You wait.">>}
        \cup Passages
        \cup OneTag(COMBAT_TAG, "Shade") \cup OneTag(COMBAT_TAG, "ogre")
        \cup OneTag(ITEM_TAG, "Sword") \cup OneTag(ITEM_TAG, "Rain")
        \cup OneTag(LOCATION_TAG, "village") \cup OneTag(LOCATION_TAG, "Cave")
        \cup OneTag(EVENT_TAG, "Rain")
        \cup TwoTags
        \cup ManyTags

\* what the player types while exploring
ExplorationInputs == {<<"look">>, <<"Help">>, <<"q">>}

\* what the player types in combat
CombatInputs ==
    {<<"A">>, <<"Defend">>, <<"run">>, <<"use", " ", "health potion">>,
     <<"use", " ", "Cave">>, <<"attack", " ">>}

----------------------------------------------------------------------------
(* The state machine *)

Init ==
    /\ world_enemies = <<Ogre>>
    /\ world_items = <<Potion, Sword, Shield, Tonic>>
    /\ world_locations = <<Village>>
    /\ knowledge_base = <<>>
    /\ player = [health |-> 100, max_health |-> 100, attack |-> 10, defense |-> 5,
                 inventory |-> <<>>]
    /\ current_location = world_locations[1].name
    /\ turn_count = 0
    /\ in_combat = FALSE
    /\ current_enemy = <<>>
    /\ enemy_alias = 0
    /\ session = "running"
    /\ rounds = 0
    /\ last = [op |-> "setup_game", input |-> <<>>, response |-> <<>>,
               calls |-> <<>>, hits |-> <<>>, shown |-> <<>>]

\* the handler ended in g: its effects become the state
Install(g, op, input, response) ==
    /\ world_enemies' = g.world_enemies
    /\ world_items' = g.world_items
    /\ world_locations' = g.world_locations
    /\ knowledge_base' = g.knowledge_base
    /\ player' = g.player
    /\ current_location' = g.current_location
    /\ turn_count' = g.turn_count
    /\ in_combat' = g.in_combat
    /\ current_enemy' = g.current_enemy
    /\ enemy_alias' = g.enemy_alias
    /\ session' = g.session
    /\ last' = [op |-> op, input |-> input, response |-> response,
                calls |-> g.calls, hits |-> g.hits, shown |-> g.shown]

\* game_loop, not in combat: one exploration_turn.  The collaborator is asked
\* only when the input is no command, and the location's type and description
\* are drawn only when the location is not in the registry.
ExplorationTurn(action, responses, turns) ==
    /\ session = "running"
    /\ ~in_combat
    /\ rounds' = 0
    /\ \E response \in Only(LowerText(action) \notin QuitWords \cup ShowWords,
                            responses, <<>>) :
        LET miss == /\ Contains(response, LOCATION_TAG)
                    /\ FirstNamed(world_locations,
                                  PayloadOf(Split(response, LOCATION_TAG)[2])) = 0
        IN  \E difficulty \in Only(Contains(response, COMBAT_TAG),
                                   Difficulties(turn_count + 1), 1),
               location_type \in Only(miss, LocationTypes, "settlement"),
               description \in Only(miss, Descriptions, <<>>) :
                \E g \in {exploration_turn(Self, action, response, difficulty,
                                            location_type, description)} :
                    /\ g.turn_count <= turns
                    /\ Install(g, "exploration_turn", action, response)

\* game_loop, in combat: one combat_turn
CombatTurn(action, most) ==
    /\ session = "running"
    /\ in_combat
    /\ Dispatch(action) # "invalid" => rounds < most
    /\ rounds' = IF Dispatch(action) = "invalid" THEN rounds ELSE rounds + 1
    /\ \E a \in ActionDraws(Self, action) :
        \E f \in FinishDraws(combat_action(Self, action, a), action) :
            \E g \in {combat_turn(Self, action, TurnDraws(a, f))} :
                /\ g.player.attack <= MaxStat
                /\ g.player.defense <= MaxStat
                /\ Install(g, "combat_turn", action, <<>>)

Next ==
    \/ \E action \in ExplorationInputs : ExplorationTurn(action, GameResponses, MaxTurn)
    \/ \E action \in CombatInputs : CombatTurn(action, MaxRounds)

Spec == Init /\ [][Next]_vars

\* the session up to its first encounter, on every shape of response
NextDirective ==
    \E action \in ExplorationInputs : ExplorationTurn(action, DirectiveResponses, MaxTurn)

SpecDirective == Init /\ [][NextDirective]_vars

\* responses that record: one that finds, travels and notes an event, one that
\* starts an encounter, one that travels to a place the registry lacks
LogResponses ==
    {<<"Prose.", " ", ITEM_TAG, " ", "Sword", "\n", LOCATION_TAG, " ", "village", "\n",
       EVENT_TAG, " ", "Rain">>,
     <<"It roars.", " ", COMBAT_TAG, " ", "ogre">>,
     <<"You walk.", " ", LOCATION_TAG, " ", "Cave">>}

\* a long session of exploration, up to its first encounter
NextLog ==
    \E action \in ExplorationInputs : ExplorationTurn(action, LogResponses, MaxLogTurn)

SpecLog == Init /\ [][NextLog]_vars

\* responses that hand the player an item, of the registry or not, some of
\* them along with an encounter
ItemResponses ==
    {<<"You find it.", " ", ITEM_TAG, " ", word>> :
        word \in {"sword", "shield", "tonic", "Charm", "potion"}}
    \cup {<<"You grab it.", " ", ITEM_TAG, " ", word, "\n", COMBAT_TAG, " ", "ogre">> :
            word \in {"sword", "shield"}}

\* what a player with items types in combat
ItemInputs ==
    {<<"use", " ", "sword">>, <<"USE", " ", "Shield">>, <<"use", " ", "tonic">>,
     <<"use", " ", "charm">>, <<"use", " ", "potion">>}

\* a session that gathers items and uses them in an encounter
NextItems ==
    \/ ExplorationTurn(<<"look">>, ItemResponses, MaxTurn)
    \/ \E action \in ItemInputs : CombatTurn(action, MaxRounds)

SpecItems == Init /\ [][NextItems]_vars

\* responses of a long run: nothing happens, or an enemy the registry lacks
\* appears
LongResponses ==
    {<<"You wait.">>, <<"A shape forms.", " ", COMBAT_TAG, " ", "Shade">>}

\* a long session in which the player looks around and runs from what appears
NextLong ==
    \/ ExplorationTurn(<<"look">>, LongResponses, MaxLongTurn)
    \/ CombatTurn(<<"run">>, MaxLongRounds)

SpecLong == Init /\ [][NextLong]_vars

\* responses that reach into every registry: items it holds and items it
\* lacks, under names that differ in case, places and enemies alike
WorldResponses ==
    {<<"You find it.", " ", ITEM_TAG, " ", word>> : word \in {"Charm", "sword"}}
    \cup {<<"You grab it.", " ", ITEM_TAG, " ", word, "\n", COMBAT_TAG, " ", foe>> :
            word \in {"CHARM", "Rain"}, foe \in {"ogre", "Shade"}}
    \cup {<<"You walk.", " ", LOCATION_TAG, " ", place, "\n", ITEM_TAG, " ", "charm">> :
            place \in {"village", "Cave"}}

\* what the player types in the fights of that session: every fight is fought
\* to its resolution, a victory with its reward or a defeat with its loss
WorldInputs == {<<"A">>}

\* a session that finds, travels and fights to the end
NextWorld ==
    \/ ExplorationTurn(<<"look">>, WorldResponses, MaxTurn)
    \/ \E action \in WorldInputs : CombatTurn(action, MaxRounds)

SpecWorld == Init /\ [][NextWorld]_vars

\* an enemy that is hard to hurt and does little harm
Turtle ==
    [name |-> <<"Turtle">>, difficulty |-> 1, health |-> 3, attack |-> 2,
     defense |-> 40, description |-> <<"A mossy shell.">>]

\* the state after a setup whose registry holds the Turtle as well
InitArena ==
    /\ world_enemies = <<Ogre, Turtle>>
    /\ world_items = <<Potion, Sword, Shield, Tonic>>
    /\ world_locations = <<Village>>
    /\ knowledge_base = <<>>
    /\ player = [health |-> 100, max_health |-> 100, attack |-> 10, defense |-> 5,
                 inventory |-> <<>>]
    /\ current_location = world_locations[1].name
    /\ turn_count = 0
    /\ in_combat = FALSE
    /\ current_enemy = <<>>
    /\ enemy_alias = 0
    /\ session = "running"
    /\ rounds = 0
    /\ last = [op |-> "setup_game", input |-> <<>>, response |-> <<>>,
               calls |-> <<>>, hits |-> <<>>, shown |-> <<>>]

\* responses that bring an enemy: two of the registry, one it lacks
ArenaResponses ==
    {<<"It stirs.", " ", COMBAT_TAG, " ", foe>> : foe \in {"turtle", "ogre", "Shade"}}

\* the player who answers every combat prompt with an attack
AttackTurn == CombatTurn(<<"attack">>, MaxAttackRounds)

NextAttack ==
    \/ ExplorationTurn(<<"look">>, ArenaResponses, MaxArenaTurn)
    \/ AttackTurn

\* game_loop calls combat_turn again for as long as in_combat holds, and the
\* player types an attack whenever asked
SpecAttack == InitArena /\ [][NextAttack]_vars /\ WF_vars(AttackTurn)

----------------------------------------------------------------------------
(* Claims.  last' names the handler a step ran and what it was given; the   *)
(* unprimed variables are the state before it, the primed ones after it.    *)

Range(s) == {s[i] : i \in DOMAIN s}

\* the step was a combat turn in which the player typed an input of this kind
CombatStep(kind) == last'.op = "combat_turn" /\ Dispatch(last'.input) = kind

\* the log entry add_to_knowledge_base makes of an event at a turn
Entry(turns, event) == <<"Turn ", ToString(turns), ": ">> \o event

\* C1: a flee attempt that succeeds ends the turn with the session alive, combat
\* over and the session's enemy cleared, the player's health and inventory as
\* they were, and exactly one entry "Fled from combat with <enemy>" appended to
\* the knowledge log.
C1_FleeSuccessEndsCombat ==
    [][(CombatStep("flee") /\ last'.hits = <<>>) =>
        /\ session' = "running"
        /\ ~in_combat'
        /\ current_enemy' = <<>>
        /\ player' = player
        /\ knowledge_base' =
              Append(knowledge_base,
                     Entry(turn_count,
                           <<"Fled from combat with ">> \o current_enemy[1].name))]_vars

\* the payload the response gives a tag
TagPayload(response, tag) == PayloadOf(Split(response, tag)[2])

\* the step processed a response with a [LOCATION] directive naming a location
\* the registry does not hold
UnknownLocationStep ==
    /\ last'.op = "exploration_turn"
    /\ Contains(last'.response, LOCATION_TAG)
    /\ FirstNamed(world_locations, TagPayload(last'.response, LOCATION_TAG)) = 0

\* C2: a [LOCATION] directive naming a location the registry does not hold leaves
\* the session alive, makes that name the current location, appends exactly one
\* record of that name, with a type of the four and a description, to the
\* locations, and logs "Traveled from <old> to <new>".
C2_UnknownLocationSynthesized ==
    [][UnknownLocationStep =>
        LET name == TagPayload(last'.response, LOCATION_TAG)
            n == Len(world_locations)
        IN  /\ session' = "running"
            /\ current_location' = name
            /\ Len(world_locations') = n + 1
            /\ SubSeq(world_locations', 1, n) = world_locations
            /\ world_locations'[n + 1].name = name
            /\ world_locations'[n + 1].type \in LocationTypes
            /\ "description" \in DOMAIN world_locations'[n + 1]
            /\ Entry(turn_count',
                     <<"Traveled from ">> \o current_location \o <<" to ">> \o name)
                  \in Range(knowledge_base')]_vars

\* C3: in a turn where the player defends, the enemy strikes exactly once, with
\* the counter-attack of player_defend; while the fight goes on the player's
\* health is the health before, healed by max_health // 20 up to max_health,
\* less that one blow of max(1, roll - boosted defense // 2), the roll in
\* [attack // 3, attack // 2].
C3_DefendOneEnemyAttack ==
    [][CombatStep("defend") =>
        /\ last'.hits = <<"player_defend">>
        /\ in_combat' =>
            \E roll \in RandInt(current_enemy[1].attack \div 3,
                                current_enemy[1].attack \div 2) :
                player'.health =
                    Min(player.max_health,
                        player.health + (player.max_health \div 20))
                    - Max(1, roll - ((player.defense + (player.defense \div 2)) \div 2))
      ]_vars

\* the item name a "use <item>" input gives use_item
ItemArgument(input) == Strip(SubSeq(input, 3, Len(input)))

\* C4: in combat, "use <item>" with a name no inventory entry has changes
\* nothing: the player, the enemy, the knowledge log and the combat status are
\* as before, and the enemy does not strike.
C4_UseAbsentItemNoMutation ==
    [][(CombatStep("use") /\ FirstNamed(player.inventory, ItemArgument(last'.input)) = 0) =>
        /\ UNCHANGED <<player, current_enemy, knowledge_base, in_combat>>
        /\ last'.hits = <<>>]_vars

\* the action strings combat_turn is documented to accept: attack/a,
\* "use <item>", defend/d, flee/f/run, in any case
Recognized(input) ==
    LET act == LowerText(input)
    IN  \/ act \in {<<"attack">>, <<"a">>, <<"defend">>, <<"d">>,
                    <<"flee">>, <<"f">>, <<"run">>}
        \/ Len(act) >= 2 /\ act[1] = "use" /\ act[2] = " "

\* strings a player may type by mistake
Mistyped ==
    {<<"attack", " ">>, <<" ", "a">>, <<"dance">>, <<>>, <<"use">>, <<"Use", "Potion">>,
     <<"fled">>, <<"defend", " ", "flee">>, <<" ">>, <<"run", " ">>}

\* the fields of self
Game(g) ==
    <<g.world_enemies, g.world_items, g.world_locations, g.knowledge_base, g.player,
      g.current_location, g.turn_count, g.in_combat, g.current_enemy, g.session>>

\* C5: in combat, on every action string that is none of attack/a, "use <item>",
\* defend/d, flee/f/run, the turn changes no field of the game (player, enemy,
\* knowledge log, turn counter, in_combat) and the enemy does not strike.
C5_InvalidActionNoChange ==
    (in_combat /\ session = "running") =>
        \A input \in {i \in CombatInputs \cup Mistyped : ~Recognized(i)} :
            \A a \in ActionDraws(Self, input) :
                \A f \in FinishDraws(combat_action(Self, input, a), input) :
                    LET g == combat_turn(Self, input, TurnDraws(a, f))
                    IN  Game(g) = Game(Self) /\ g.hits = <<>>

\* an unrecognized string was typed in combat, and the fight goes on
C5_Witness ==
    /\ last.op = "combat_turn"
    /\ ~Recognized(last.input)
    /\ last.calls = <<"combat_turn">>
    /\ in_combat
    /\ rounds > 0

\* C6: once start_combat has met a name, the enemies hold a record of that
\* name, so a later encounter with the name finds that record.
C6_SynthesizedEnemyRegistered ==
    in_combat => FirstNamed(world_enemies, current_enemy[1].name) # 0

\* where a token first stands in a text, 0 if nowhere
Position(s, x) ==
    IF Contains(s, x)
    THEN CHOOSE i \in DOMAIN s : s[i] = x /\ \A j \in 1..(i-1) : s[j] # x
    ELSE 0

\* the log entry is the one the tag's handler makes of the response in this turn
EffectOf(entry, tag, response) ==
    /\ Len(entry) >= 4
    /\ entry[2] = ToString(turn_count)
    /\ CASE tag = COMBAT_TAG -> entry[4] = "Encountered and fought "
         [] tag = ITEM_TAG -> entry[4] = "Found "
         [] tag = LOCATION_TAG -> entry[4] = "Traveled from "
         [] OTHER -> entry = Entry(turn_count, TagPayload(response, EVENT_TAG))

\* where the knowledge log holds the tag's effect, 0 if nowhere
Logged(tag, response) ==
    IF \E i \in DOMAIN knowledge_base : EffectOf(knowledge_base[i], tag, response)
    THEN CHOOSE i \in DOMAIN knowledge_base : EffectOf(knowledge_base[i], tag, response)
    ELSE 0

\* C7: the effects of the tags of one response are applied in the order the
\* tags stand in its text: of two tags that both left an entry in the knowledge
\* log, the entry of the one standing first comes first.
C7_EffectsInTextOrder ==
    last.op = "exploration_turn" =>
        \A t \in TagSet, u \in TagSet :
            ( /\ Position(last.response, t) # 0
              /\ Position(last.response, t) < Position(last.response, u)
              /\ Logged(t, last.response) # 0
              /\ Logged(u, last.response) # 0 )
            => Logged(t, last.response) < Logged(u, last.response)

\* the response holds one tag and nothing but whitespace after it
BareTag(response) ==
    \E i \in DOMAIN response :
        /\ response[i] \in TagSet
        /\ \A j \in DOMAIN response : j # i => response[j] \notin TagSet
        /\ \A j \in (i+1)..Len(response) : IsSpace(response[j])

\* C8: a tag with nothing, or only whitespace, after it is a no-op: no combat
\* starts, no item reaches the inventory or the registry, the current location
\* stays, the knowledge log gets no entry, and nothing is raised.
C8_EmptyPayloadNoOp ==
    [][(last'.op = "exploration_turn" /\ BareTag(last'.response)) =>
        /\ session' = "running"
        /\ UNCHANGED <<in_combat, current_enemy, player, world_enemies, world_items,
                       world_locations, current_location, knowledge_base>>]_vars

\* C9: in every state the player's health is within 0..max_health, and
\* max_health is the value the player was created with.
C9_HealthWithinBounds ==
    /\ 0 <= player.health
    /\ player.health <= player.max_health
    /\ player.max_health = 100

\* a fight was lost: the enemy's blow took the player's health to zero or
\* below, and resolve_combat revived the player with a quarter of max_health
C9_Witness ==
    /\ last.op = "combat_turn"
    /\ last.calls[Len(last.calls)] = "resolve_combat"
    /\ "enemy_attack" \in Range(last.hits)
    /\ ~in_combat
    /\ player.health = player.max_health \div 4

\* the attack values an attack is tried with in a state: at the start of an
\* encounter every value up to the cap, later the player's own
AttackValues == IF rounds = 0 THEN 0..MaxStat ELSE {player.attack}

\* C10: whatever the enemy's defense and the player's attack value (>= 0), a
\* player attack lowers the enemy's health by max(1, roll - defense // 2), the
\* roll in [attack // 2, attack], and by damage // 2 more on a critical hit: by
\* at least 1, never by nothing and never upward.
C10_AttackDamageFloor ==
    (in_combat /\ session = "running") =>
        \A attack \in AttackValues :
            \A roll \in RandInt(attack \div 2, attack), critical \in BOOLEAN :
                LET before == current_enemy[1].health
                    g == player_attack([Self EXCEPT !.player.attack = attack],
                                       roll, critical)
                    after == g.current_enemy[1].health
                    base == roll - (current_enemy[1].defense \div 2)
                    damage == IF base < 1 THEN 1 ELSE base
                IN  /\ after <= before - 1
                    /\ after = before - damage - (IF critical THEN damage \div 2 ELSE 0)

\* an attack against a defense that outweighs the roll has cost the enemy the
\* one point of the floor, and the fight goes on
C10_Witness ==
    /\ last.op = "combat_turn"
    /\ Dispatch(last.input) = "attack"
    /\ in_combat
    /\ current_enemy[1].defense \div 2 >= player.attack \div 2
    /\ current_enemy[1].health = Ogre.health - 1

\* the valid action strings a player types in combat
ValidInputs == {i \in CombatInputs : Dispatch(i) # "invalid"}

\* the turn ended in resolve_combat, which logged the entry with this opening
Resolved(g, opening) ==
    /\ "resolve_combat" \in Range(g.calls)
    /\ g.knowledge_base # <<>>
    /\ g.knowledge_base[Len(g.knowledge_base)][4] = opening

\* the enemy of the session is down
EnemyDown(g) == g.current_enemy # <<>> /\ g.current_enemy[1].health <= 0

\* the turn protocol of one turn: down says the enemy's health is <= 0 after the
\* player's action, g is the game after the turn, health the player's health
\* after the enemy's blow
Protocol(down, g, health) ==
    LET victory == Resolved(g, "Defeated ")
        defeat == Resolved(g, "Was defeated by ")
        struck == "enemy_attack" \in Range(g.calls)
    IN  /\ victory <=> down
        /\ victory => ~struck
        /\ ~victory => struck /\ (defeat <=> health <= 0)
        /\ ~(victory /\ defeat)
        /\ (victory \/ defeat) <=> ~g.in_combat

DefenseValues == IF rounds = 0 THEN 0..MaxStat ELSE {player.defense}

\* C12: whatever the player's defense and the enemy, the player's defense after
\* a defend action is the defense before it: the bonus of defense // 2 is taken
\* back, also when the counter-attack takes the player's health to 0 or below,
\* and the turn as a whole leaves the defense as it was.
C12_DefendRevertsDefense ==
    (in_combat /\ session = "running") =>
        /\ \A defense \in DefenseValues, health \in {player.health, 1} :
             \A roll \in RandInt(current_enemy[1].attack \div 3,
                                 current_enemy[1].attack \div 2) :
                LET g == player_defend([Self EXCEPT !.player.defense = defense,
                                                    !.player.health = health], roll)
                IN  /\ g.player.defense = defense
                    /\ g.player.health < health + (player.max_health \div 20)
        /\ \A action \in {i \in CombatInputs : Dispatch(i) = "defend"} :
             \A a \in ActionDraws(Self, action) :
                \A f \in FinishDraws(combat_action(Self, action, a), action) :
                    combat_turn(Self, action, TurnDraws(a, f)).player.defense
                        = player.defense

\* a defend was played as the second turn against the Ogre, whose first blow
\* leaves at most 4 health and whose counter-attack costs at least 62: the
\* counter-attack felled the player, and the defense is the one before the turn
C12_Witness ==
    /\ rounds = 2
    /\ knowledge_base[Len(knowledge_base)] =
          Entry(turn_count, <<"Was defeated by ">> \o Ogre.name
                               \o <<" but mysteriously revived">>)
    /\ last.op = "combat_turn"
    /\ Dispatch(last.input) = "defend"
    /\ last.hits = <<"player_defend", "enemy_attack">>
    /\ "resolve_combat" \in Range(last.calls)
    /\ ~in_combat
    /\ player.health = player.max_health \div 4
    /\ player.defense = 5

\* the events the handlers record
Recordings ==
    {<<"Encountered and fought ", "Ogre">>, <<"Found ", "Sword">>,
     <<"Traveled from ", "Village", " to ", "Cave">>, <<"Defeated ", "Ogre", " in combat">>,
     <<"Was defeated by ", "Ogre", " but mysteriously revived">>,
     <<"Fled from combat with ", "Ogre">>, <<"Rain">>, <<>>}

\* log is what is left of all once the oldest entries beyond the cap are dropped
Capped(log, all) ==
    /\ Len(log) = Min(KnowledgeLimit, Len(all))
    /\ log = SubSeq(all, Len(all) - Len(log) + 1, Len(all))

\* the entries a step can record: one per tag
MaxRecorded == Cardinality(TagSet)

\* C13: the knowledge log never holds more than 50 entries.  Recording any event
\* in any state appends its entry as the last element and, once the cap is
\* exceeded, drops exactly the oldest entries, the others keeping their order;
\* every step of the session leaves the log as the old log with the step's
\* entries appended and the oldest dropped, and when the response of the step
\* notes an event, that event's entry is the last element.
C13_KnowledgeLogCapped ==
    /\ [](/\ Len(knowledge_base) <= KnowledgeLimit
          /\ \A event \in Recordings :
                LET log == add_to_knowledge_base(Self, event).knowledge_base
                IN  /\ Capped(log, Append(knowledge_base, Entry(turn_count, event)))
                    /\ log[Len(log)] = Entry(turn_count, event))
    /\ [][/\ \E k \in 0..MaxRecorded :
                /\ k <= Len(knowledge_base')
                /\ Capped(knowledge_base',
                          knowledge_base \o SubSeq(knowledge_base',
                                                   Len(knowledge_base') - k + 1,
                                                   Len(knowledge_base')))
          /\ (Contains(last'.response, EVENT_TAG) /\ session' = "running") =>
                knowledge_base'[Len(knowledge_base')] =
                    Entry(turn_count', TagPayload(last'.response, EVENT_TAG))]_vars

\* the log is full, its oldest entries are gone, and what it holds are the
\* newest entries in the order they were recorded
C13_Witness ==
    /\ Len(knowledge_base) = KnowledgeLimit
    /\ knowledge_base[1][2] # "1"
    /\ knowledge_base[Len(knowledge_base)] = Entry(turn_count, <<"Rain">>)
    /\ knowledge_base[Len(knowledge_base) - 1][4] = "Traveled from "
    /\ turn_count * 3 > KnowledgeLimit + 3

\* the session's enemy is one the registry holds a template of
FromTemplate ==
    in_combat /\ FirstNamed(world_enemies, current_enemy[1].name) # 0

\* C14: combat never changes an enemy template of the registry: whatever turns
\* were played, the registry's records are those the world was created with,
\* health, attack and defense included, and an encounter with an enemy of the
\* registry starts with the template's values, full health included, also
\* when the enemy was fought and hurt before.
C14_TemplateNeverMutated ==
    /\ world_enemies = <<Ogre>>
    /\ (FromTemplate /\ rounds = 0) =>
          current_enemy[1] = world_enemies[FirstNamed(world_enemies,
                                                      current_enemy[1].name)]

\* the Ogre of the registry is being fought and has been hurt by an attack:
\* the session's Ogre is below the template's health, the template is whole
C14_Witness ==
    /\ FromTemplate
    /\ last.op = "combat_turn"
    /\ "player_attack" \in Range(last.calls)
    /\ current_enemy[1].health < world_enemies[1].health
    /\ world_enemies[1] = Ogre
    /\ enemy_alias = 0

\* how often the handler went into a method
Count(calls, name) == Cardinality({i \in DOMAIN calls : calls[i] = name})

\* C15: there is at most one combat session.  In every state between actions
\* there is a current enemy exactly when in_combat is true; start_combat runs
\* only out of exploration, never while in_combat is true and once at most in
\* a turn; a session begins only by start_combat and ends only by
\* resolve_combat or by a flee that succeeds.
C15_OneCombatSession ==
    /\ []((current_enemy # <<>>) <=> in_combat)
    /\ [][/\ Count(last'.calls, "start_combat") > 0 =>
                /\ ~in_combat
                /\ last'.op = "exploration_turn"
                /\ Count(last'.calls, "start_combat") = 1
          /\ (~in_combat /\ in_combat') => Count(last'.calls, "start_combat") = 1
          /\ (in_combat /\ ~in_combat') =>
                \/ Count(last'.calls, "resolve_combat") = 1
                \/ /\ CombatStep("flee")
                   /\ last'.calls = <<"combat_turn", "attempt_flee">>
                   /\ last'.hits = <<>>]_vars

\* an encounter has begun after an earlier one was resolved: the session is
\* the second of the run, and the only one there is
C15_Witness ==
    /\ in_combat
    /\ current_enemy # <<>>
    /\ Count(last.calls, "start_combat") = 1
    /\ \E i \in DOMAIN knowledge_base : knowledge_base[i][4] = "Was defeated by "

\* inventories a fight may be lost with
LostWith ==
    {<<>>, <<Potion>>, <<Potion, Sword>>, <<Potion, Potion>>, <<Potion, Sword, Potion>>}

\* the entry resolve_combat logs of a defeat by the enemy of this name
DefeatEntry(turns, name) ==
    Entry(turns, <<"Was defeated by ">> \o name \o <<" but mysteriously revived">>)

\* the step lost a fight: the enemy struck and resolve_combat followed
DefeatStep ==
    /\ last'.op = "combat_turn"
    /\ Count(last'.calls, "enemy_attack") = 1
    /\ Count(last'.calls, "resolve_combat") = 1

\* C16: on defeat the player stays in the game: health is exactly
\* max_health // 4, the inventory is as it was or is short of exactly one
\* item (of none when it was empty), the session is cleared, and the newest
\* entry of the knowledge log is "Was defeated by <enemy> but mysteriously
\* revived", naming the enemy of the fight.
C16_DefeatRevives ==
    /\ []((in_combat /\ session = "running") =>
            \A inventory \in LostWith \cup {player.inventory}, health \in {0, -3} :
                \A robbed \in BOOLEAN, lost \in 1..Max(1, Len(inventory)) :
                    LET before == [Self EXCEPT !.player.inventory = inventory,
                                               !.player.health = health]
                        g == resolve_combat(before, FALSE, FALSE, robbed, lost)
                    IN  /\ g.session = "running"
                        /\ g.player.health = player.max_health \div 4
                        /\ \/ g.player.inventory = inventory
                           \/ \E i \in DOMAIN inventory :
                                 g.player.inventory = Pop(inventory, i)
                        /\ ~robbed => g.player.inventory = inventory
                        /\ [g.player EXCEPT !.health = 0, !.inventory = <<>>]
                              = [player EXCEPT !.health = 0, !.inventory = <<>>]
                        /\ ~g.in_combat
                        /\ g.current_enemy = <<>>
                        /\ g.knowledge_base[Len(g.knowledge_base)]
                              = DefeatEntry(turn_count, current_enemy[1].name))
    /\ [][DefeatStep =>
            /\ session' = "running"
            /\ player'.health = player.max_health \div 4
            /\ Len(player'.inventory) <= Len(player.inventory)
            /\ Len(player'.inventory) >= Len(player.inventory) - 1
                  - Count(last'.calls, "use_item")
            /\ ~in_combat'
            /\ current_enemy' = <<>>
            /\ knowledge_base'[Len(knowledge_base')]
                  = DefeatEntry(turn_count, current_enemy[1].name)]_vars

\* a fight was lost by a player who had won a potion before and kept it
C16_Witness ==
    /\ last.op = "combat_turn"
    /\ Count(last.calls, "enemy_attack") = 1
    /\ Count(last.calls, "resolve_combat") = 1
    /\ ~in_combat
    /\ session = "running"
    /\ player.health = 25
    /\ Len(player.inventory) = 1
    /\ knowledge_base[Len(knowledge_base)] = DefeatEntry(turn_count, Ogre.name)

\* the entry resolve_combat logs of a victory over the enemy of this name
VictoryEntry(turns, name) == Entry(turns, <<"Defeated ">> \o name \o <<" in combat">>)

\* the item is the reward of a victory: a consumable named Health Potion
IsReward(item) ==
    /\ item.name = <<"Health Potion">>
    /\ item.type = "consumable"
    /\ \E i \in DOMAIN item.effect : HasHeal(Lower(item.effect[i]))

\* what resolve_combat may make of an inventory on victory: nothing, or
\* the inventory with one reward at its end
Rewarded(after, inventory) ==
    \/ after = inventory
    \/ /\ Len(after) = Len(inventory) + 1
       /\ SubSeq(after, 1, Len(inventory)) = inventory
       /\ IsReward(after[Len(after)])

\* the step won a fight: resolve_combat followed the player's action with no
\* enemy attack
VictoryStep ==
    /\ last'.op = "combat_turn"
    /\ Count(last'.calls, "enemy_attack") = 0
    /\ Count(last'.calls, "resolve_combat") = 1

\* C17: on victory the player is healed by max_health // 10, up to max_health,
\* with and without a reward; the inventory is as it was or has exactly one
\* Health Potion consumable more; an entry "Defeated <enemy> in combat" naming
\* the enemy of the fight is appended to the log; the session is cleared and the
\* game goes on in exploration.
C17_VictoryHealsAndRewards ==
    /\ []((in_combat /\ session = "running") =>
            \A health \in {player.health, 1, 89, 90, 91, 100}, rewarded \in BOOLEAN :
                LET before == [Self EXCEPT !.player.health = health]
                    g == resolve_combat(before, TRUE, rewarded, FALSE, 1)
                IN  /\ g.session = "running"
                    /\ g.player.health =
                          Min(player.max_health, health + (player.max_health \div 10))
                    /\ Rewarded(g.player.inventory, player.inventory)
                    /\ rewarded <=> g.player.inventory # player.inventory
                    /\ [g.player EXCEPT !.health = 0, !.inventory = <<>>]
                          = [player EXCEPT !.health = 0, !.inventory = <<>>]
                    /\ ~g.in_combat
                    /\ g.current_enemy = <<>>
                    /\ g.knowledge_base
                          = Append(knowledge_base,
                                   VictoryEntry(turn_count, current_enemy[1].name)))
    /\ [][VictoryStep =>
            /\ session' = "running"
            /\ player'.health =
                  Min(player.max_health, player.health + (player.max_health \div 10))
            /\ Rewarded(player'.inventory, player.inventory)
            /\ ~in_combat'
            /\ current_enemy' = <<>>
            /\ knowledge_base'
                  = Append(knowledge_base,
                           VictoryEntry(turn_count, current_enemy[1].name))]_vars

\* a fight was won without a reward by a player the enemy had hurt before: the
\* health is back at max_health and the inventory is as empty as it was
C17_Witness ==
    /\ last.op = "combat_turn"
    /\ last.calls = <<"combat_turn", "player_attack", "resolve_combat">>
    /\ rounds = 2
    /\ ~in_combat
    /\ session = "running"
    /\ player.health = player.max_health
    /\ player.inventory = <<>>
    /\ knowledge_base[Len(knowledge_base)] = VictoryEntry(turn_count, <<"Shade">>)

\* a healing consumable that goes by the name of the registry's Potion
Draught ==
    [name |-> <<"potion">>, type |-> "consumable",
     effect |-> <<"Restores", " ", "50", " ", "health">>,
     description |-> <<"A red draught.">>]

\* a thing of no use, as find_item makes of a name the registry lacks
Charm ==
    [name |-> <<"Charm">>, type |-> "misc", effect |-> <<"Unknown">>,
     description |-> <<"A mysterious ", "Charm", ".">>]

\* inventories an item may be used from
Carried ==
    {<<>>, <<Sword>>, <<Charm, Shield>>, <<Tonic, Potion>>, <<Potion, Sword, Draught>>,
     <<Draught, Tonic, Potion, Tonic>>, <<Shield, Charm, Sword, Shield>>}

\* the names a player may ask for
Asked == {<<"sword">>, <<"SHIELD">>, <<"tonic">>, <<"charm">>, <<"Potion">>, <<"Rain">>}

\* the game after n uses of the item in a row
RECURSIVE Uses(_, _, _)
Uses(g, name, n) == IF n = 0 THEN g ELSE use_item(Uses(g, name, n - 1), name)

\* the most uses in a row that are looked at
MaxUses == 3

\* what using the item of this name makes of the player before, the player
\* after n uses being after(n)
UsedAsClaimed(before, name, after(_)) ==
    LET i == FirstNamed(before.inventory, name)
        kind == IF i = 0 THEN "none" ELSE Lower(before.inventory[i].type)
        Rest(p) == [p EXCEPT !.inventory = <<>>, !.attack = 0, !.defense = 0,
                             !.health = 0]
    IN  /\ Rest(after(1)) = Rest(before)
        /\ CASE kind = "consumable" ->
                  /\ after(1).inventory = Pop(before.inventory, i)
                  /\ after(1).attack = before.attack
                  /\ after(1).defense = before.defense
                  /\ after(1).health >= before.health
             [] kind = "weapon" ->
                  /\ after(1).attack > before.attack
                  /\ \A n \in 1..MaxUses :
                        /\ after(n).inventory = before.inventory
                        /\ after(n).attack =
                              before.attack + n * (after(1).attack - before.attack)
                        /\ after(n).defense = before.defense
                        /\ after(n).health = before.health
             [] kind = "armor" ->
                  /\ after(1).defense > before.defense
                  /\ \A n \in 1..MaxUses :
                        /\ after(n).inventory = before.inventory
                        /\ after(n).defense =
                              before.defense + n * (after(1).defense - before.defense)
                        /\ after(n).attack = before.attack
                        /\ after(n).health = before.health
             [] OTHER -> after(1) = before

\* C18: using an item removes a consumable from the inventory, one entry, the
\* first whose name matches in any case, whether its effect heals or not; it
\* leaves a weapon or an armor in the inventory and adds its bonus to attack or
\* defense at every use, n uses adding n times the bonus; an item of any other
\* type, like a name the inventory lacks, changes neither inventory nor stats.
C18_UseItemByType ==
    /\ []((in_combat /\ session = "running") =>
            \A inventory \in Carried \cup {player.inventory}, name \in Asked :
                LET before == [Self EXCEPT !.player.inventory = inventory]
                    after(n) == Uses(before, name, n).player
                IN  UsedAsClaimed(before.player, name, after))
    /\ [][(CombatStep("use") /\ in_combat') =>
                /\ Count(last'.calls, "use_item") = 1
                /\ LET i == FirstNamed(player.inventory, ItemArgument(last'.input))
                       kind == IF i = 0 THEN "none"
                               ELSE Lower(player.inventory[i].type)
                   IN  /\ player'.inventory =
                            IF kind = "consumable" THEN Pop(player.inventory, i)
                            ELSE player.inventory
                       /\ player'.attack > player.attack <=> kind = "weapon"
                       /\ player'.defense > player.defense <=> kind = "armor"
                       /\ player'.attack >= player.attack
                       /\ player'.defense >= player.defense]_vars

\* the shield was used in two turns of a fight: it is still carried, and the
\* defense is up by twice its bonus
C18_Witness ==
    /\ last.op = "combat_turn"
    /\ Dispatch(last.input) = "use"
    /\ SameName(ItemArgument(last.input), Shield.name)
    /\ rounds = 2
    /\ FirstNamed(player.inventory, Shield.name) # 0
    /\ player.defense = 5 + 2 * 3
    /\ player.attack = 10

\* the response holds one tag, a payload on the tag's line, and a line break
\* after it
OneTagLine(response) ==
    /\ Cardinality({i \in DOMAIN response : response[i] \in TagSet}) = 1
    /\ \E i \in DOMAIN response :
          LET rest == SubSeq(response, i + 1, Len(response))
          IN  /\ response[i] \in TagSet
              /\ Contains(rest, "\n")
              /\ Strip(SubSeq(rest, 1, Position(rest, "\n") - 1)) # <<>>

\* the text before the tag, a line break, and the text after the payload line
Displayed(response) ==
    LET i == CHOOSE k \in DOMAIN response : response[k] \in TagSet
    IN  Strip(Strip(SubSeq(response, 1, i - 1)) \o <<"\n">>
                \o AfterNewline(SubSeq(response, i + 1, Len(response))))

\* C19: for a response with one tag whose payload is followed by a line break,
\* the text displayed is the text before the tag and the text after the
\* payload line, the marker and its payload removed and the line break between
\* the two parts kept: "You see a cave. [LOCATION] Dark Cave\nIt is cold." is
\* displayed as "You see a cave.\nIt is cold.".  Stated of the turns that get
\* as far as displaying the response.
C19_TagStrippingKeepsLineBreak ==
    (last.op = "exploration_turn" /\ OneTagLine(last.response)
        /\ session = "running") =>
        last.shown = <<Displayed(last.response)>>

\* the payload as text up to the first line break after the marker, trimmed
PayloadUpToNewline(part) == Strip(Split(part, "\n")[1])

\* the directives of a response, each handler given the text of the marker's
\* own line
DirectedByOwnLine(g, response, difficulty, location_type, description) ==
    LET g1 == IF Tagged(g, response, COMBAT_TAG)
              THEN start_combat(g, PayloadUpToNewline(Split(response, COMBAT_TAG)[2]),
                                difficulty)
              ELSE g
        g2 == IF Tagged(g1, response, ITEM_TAG)
              THEN find_item(g1, PayloadUpToNewline(Split(response, ITEM_TAG)[2]))
              ELSE g1
        g3 == IF Tagged(g2, response, LOCATION_TAG)
              THEN change_location(g2,
                        PayloadUpToNewline(Split(response, LOCATION_TAG)[2]),
                        location_type, description)
              ELSE g2
    IN  IF Tagged(g3, response, EVENT_TAG)
        THEN add_to_knowledge_base(g3,
                PayloadUpToNewline(Split(response, EVENT_TAG)[2]))
        ELSE g3

\* C20: the payload of a directive tag is the text from just after the marker
\* up to the next line break, trimmed; text on later lines is never part of
\* it, so a marker followed at once by a line break has an empty payload.
\* Every turn that interprets a response leaves the session as the handlers
\* leave it when each is given the text of its marker's own line.
C20_PayloadEndsAtLineBreak ==
    [][(last'.op = "exploration_turn"
            /\ "process_player_action" \in Range(last'.calls)) =>
        \E difficulty \in Difficulties(turn_count + 1),
           location_type \in LocationTypes, description \in Descriptions :
            LET g0 == Enter(Enter(Self, "exploration_turn"), "process_player_action")
                g == DirectedByOwnLine([g0 EXCEPT !.turn_count = @ + 1],
                                       last'.response, difficulty,
                                       location_type, description)
            IN  /\ world_enemies' = g.world_enemies
                /\ world_items' = g.world_items
                /\ world_locations' = g.world_locations
                /\ knowledge_base' = g.knowledge_base
                /\ player' = g.player
                /\ current_location' = g.current_location
                /\ in_combat' = g.in_combat
                /\ current_enemy' = g.current_enemy
                /\ session' = g.session
                /\ last'.calls = g.calls]_vars

\* the step interpreted a response whose directives are each on a line of
\* their own with a payload
ManyTagsStep ==
    /\ last'.op = "exploration_turn"
    /\ "process_player_action" \in Range(last'.calls)
    /\ last'.response \in TwoTags \cup ManyTags

\* the effect of the tag's directive is there after the step
Applied(tag) ==
    LET payload == PayloadUpToNewline(Split(last'.response, tag)[2])
        inv == player'.inventory
    IN  CASE tag = COMBAT_TAG ->
                /\ in_combat'
                /\ current_enemy' # <<>>
                /\ SameName(current_enemy'[1].name, payload)
          [] tag = ITEM_TAG ->
                /\ Len(inv) = Len(player.inventory) + 1
                /\ SameName(inv[Len(inv)].name, payload)
          [] tag = LOCATION_TAG -> current_location' = payload
          [] tag = EVENT_TAG -> Entry(turn_count', payload) \in Range(knowledge_base')

\* C21: all four tags fire independently: for a response that holds any of
\* [COMBAT], [ITEM], [LOCATION], [EVENT], each with a payload, the effect of
\* every tag present is applied (combat started, item in the inventory,
\* current_location changed, event logged) whatever other tags are present.
C21_TagsFireIndependently ==
    [][ManyTagsStep =>
        \A tag \in TagSet : Contains(last'.response, tag) => Applied(tag)]_vars

\* the step before this state synthesized the session's enemy: an encounter
\* began with a name the registry lacks
Synthesized ==
    /\ last.op = "exploration_turn"
    /\ in_combat
    /\ FirstNamed(world_enemies, current_enemy[1].name) = 0

\* the stats of an enemy follow from its difficulty
StatsFollow(e) ==
    /\ e.health = 20 * e.difficulty
    /\ e.attack = 5 + 2 * e.difficulty
    /\ e.defense = 2 + e.difficulty

\* the difficulty is within the range the turn count allows
InRange(e, turns) ==
    /\ 1 <= e.difficulty
    /\ e.difficulty <= Min(10, (turns \div 5) + 1)

\* C22 as stated: an enemy synthesized for an unknown name has difficulty d with
\* 1 <= d <= min(10, turn_count // 5 + 1), health 20*d, attack 5 + 2*d and
\* defense 2 + d, and at turn_count = 12 the synthesized 'Shade' has difficulty
\* 3, health 60, attack 11, defense 5.
C22_SynthesizedEnemyAtTwelve ==
    Synthesized =>
        /\ InRange(current_enemy[1], turn_count)
        /\ StatsFollow(current_enemy[1])
        /\ turn_count = 12 =>
              /\ current_enemy[1].difficulty = 3
              /\ current_enemy[1].health = 60
              /\ current_enemy[1].attack = 11
              /\ current_enemy[1].defense = 5

\* C22: an enemy synthesized for an unknown name has difficulty d with
\* 1 <= d <= min(10, turn_count // 5 + 1), health 20*d, attack 5 + 2*d and
\* defense 2 + d, in the session and for every draw start_combat may make in
\* any state; at turn_count = 12 the difficulty is at most 3, the health at
\* most 60, the attack at most 11 and the defense at most 5.
C22_SynthesizedEnemy ==
    /\ Synthesized =>
        /\ InRange(current_enemy[1], turn_count)
        /\ StatsFollow(current_enemy[1])
        /\ turn_count = 12 =>
              /\ current_enemy[1].difficulty \in 1..3
              /\ current_enemy[1].health <= 60
              /\ current_enemy[1].attack <= 11
              /\ current_enemy[1].defense <= 5
    /\ \A difficulty \in Difficulties(turn_count) :
          LET e == start_combat(Self, <<"Shade">>, difficulty).current_enemy[1]
          IN  /\ e.name = <<"Shade">>
              /\ e.difficulty = difficulty
              /\ InRange(e, turn_count)
              /\ StatsFollow(e)

\* at turn 12 a Shade of difficulty 1 stands before the player
C22_Witness ==
    /\ Synthesized
    /\ turn_count = 12
    /\ current_enemy[1].name = <<"Shade">>
    /\ current_enemy[1].difficulty = 1
    /\ current_enemy[1].health = 20

\* C23: on a failed flee attempt, whatever the player's defense, the punitive
\* attack deals max(2, roll - player.defense // 3) for every roll in
\* [enemy.attack // 2, enemy.attack], so the player's health drops by at least
\* 2, and attempt_flee leaves combat on and the enemy as it was; the turn as a
\* whole ends with combat on, the same enemy with its health unchanged and the
\* player's health lower by at least 2, unless the player's health reached 0
\* or below, in which case the turn ends in the resolution of a defeat.
C23_FailedFleePunished ==
    /\ []((in_combat /\ session = "running") =>
            \A defense \in DefenseValues :
               \A roll \in RandInt(current_enemy[1].attack \div 2,
                                   current_enemy[1].attack) :
                  LET g == attempt_flee([Self EXCEPT !.player.defense = defense],
                                        FALSE, roll)
                  IN  /\ g.player.health =
                            player.health - Max(2, roll - (defense \div 3))
                      /\ g.player.health <= player.health - 2
                      /\ g.in_combat
                      /\ g.current_enemy = current_enemy
                      /\ g.session = "running")
    /\ [][(CombatStep("flee") /\ last'.hits # <<>>) =>
            /\ last'.hits[1] = "attempt_flee"
            /\ session' = "running"
            /\ IF "resolve_combat" \in Range(last'.calls)
               THEN /\ ~in_combat'
                    /\ knowledge_base'[Len(knowledge_base')] =
                          Entry(turn_count,
                                <<"Was defeated by ">> \o current_enemy[1].name
                                    \o <<" but mysteriously revived">>)
               ELSE /\ in_combat'
                    /\ current_enemy' = current_enemy
                    /\ player'.health <= player.health - 2
                    /\ player'.health > 0]_vars

\* a flee from the Shade failed: the player is hurt and still faces it
C23_Witness ==
    /\ last.op = "combat_turn"
    /\ Dispatch(last.input) = "flee"
    /\ last.hits # <<>>
    /\ last.hits[1] = "attempt_flee"
    /\ in_combat
    /\ current_enemy[1].name = <<"Shade">>
    /\ player.health <= player.max_health - 2
    /\ rounds = 1

\* effect texts by the type of the item that bears them, with what a use is to
\* add to health (before the cap), attack and defense
EffectCases ==
    {[type |-> "consumable", effect |-> <<"Heal", " ", "50", " ", "health">>,
      heal |-> 50, attack |-> 0, defense |-> 0],
     [type |-> "Consumable", effect |-> <<"Restores", " ", "health">>,
      heal |-> 20, attack |-> 0, defense |-> 0],
     [type |-> "consumable", effect |-> <<"+", "7", " ", "health">>,
      heal |-> 7, attack |-> 0, defense |-> 0],
     [type |-> "consumable", effect |-> <<"Boost", " ", "3">>,
      heal |-> 0, attack |-> 0, defense |-> 0],
     [type |-> "weapon", effect |-> <<"+", "7", " ", "damage">>,
      heal |-> 0, attack |-> 7, defense |-> 0],
     [type |-> "Weapon", effect |-> <<"Boost", " ", "3">>,
      heal |-> 0, attack |-> 5, defense |-> 0],
     [type |-> "weapon", effect |-> <<"+", " ", "7">>,
      heal |-> 0, attack |-> 5, defense |-> 0],
     [type |-> "weapon", effect |-> <<"Heal", " ", "50", " ", "+", "3">>,
      heal |-> 0, attack |-> 3, defense |-> 0],
     [type |-> "armor", effect |-> <<"+", "7", " ", "damage">>,
      heal |-> 0, attack |-> 0, defense |-> 7],
     [type |-> "Armor", effect |-> <<"Boost", " ", "3">>,
      heal |-> 0, attack |-> 0, defense |-> 3],
     [type |-> "armor", effect |-> <<"Unknown">>,
      heal |-> 0, attack |-> 0, defense |-> 3]}

\* C24: a consumable whose effect holds 'heal' or 'health' heals by the first
\* integer of the effect text, 20 when it has none ('Heal 50 health' gives 50);
\* a weapon or an armor takes its bonus from the first '+N' of the effect text
\* ('+7 damage' gives 7), and an effect with a number but no '+' before it
\* ('Boost 3') gives the default, 5 for a weapon and 3 for an armor.  Checked
\* for every case of the table in every combat state, and of the items used in
\* the session: the Sword ('+7 damage') adds 7 to attack, the Shield ('Boost 3')
\* 3 to defense, the Potion ('Heal 20') at most 20 to health.
C24_EffectMagnitudes ==
    /\ []((in_combat /\ session = "running") =>
            \A c \in EffectCases, health \in {1, player.health} :
                LET item == [name |-> <<"Charm">>, type |-> c.type,
                             effect |-> c.effect, description |-> <<>>]
                    before == [Self EXCEPT !.player.inventory = <<item>>,
                                           !.player.health = health]
                    after == use_item(before, <<"charm">>).player
                IN  /\ after.health = Min(player.max_health, health + c.heal)
                    /\ after.attack = player.attack + c.attack
                    /\ after.defense = player.defense + c.defense)
    /\ [][(CombatStep("use") /\ in_combat'
                /\ FirstNamed(player.inventory, ItemArgument(last'.input)) # 0) =>
            LET name == ItemArgument(last'.input)
            IN  /\ SameName(name, Sword.name) => player'.attack = player.attack + 7
                /\ SameName(name, Shield.name) => player'.defense = player.defense + 3
                /\ SameName(name, Potion.name) =>
                        player'.health < Min(player.max_health, player.health + 20)]_vars

\* the sword was used in the first turn of a fight and the attack is up by 7
C24_Witness ==
    /\ last.op = "combat_turn"
    /\ Dispatch(last.input) = "use"
    /\ SameName(ItemArgument(last.input), Sword.name)
    /\ rounds = 1
    /\ in_combat
    /\ player.attack = 10 + 7
    /\ player.defense = 5

\* no two records of the collection have names equal ignoring case
Unique(list) ==
    \A i, j \in DOMAIN list : SameName(list[i].name, list[j].name) => i = j

\* the names of the records of a collection, in its order
Names(list) == [i \in DOMAIN list |-> list[i].name]

\* the collection after holds the records of the one before, in their order,
\* and then the new ones
Grown(before, after) ==
    /\ Len(before) <= Len(after)
    /\ SubSeq(Names(after), 1, Len(before)) = Names(before)

\* names a directive may bring: of the registry in another case, and new ones
FoundNames ==
    {<<"sword">>, <<"Sword">>, <<"POTION">>, <<"Charm">>, <<"charm">>, <<"Rain">>, <<>>}

\* C25: the registry collections stay unique and append-only: starting from
\* collections unique by case-insensitive name, after any sequence of [ITEM],
\* [LOCATION] and [COMBAT] directives and combat resolutions no collection
\* holds two records whose names are equal ignoring case, and no step removes
\* a record from a collection or reorders it (the item lost in a defeat leaves
\* the inventory only); find_item of any name in any state keeps both.
C25_RegistryUniqueAppendOnly ==
    /\ [](/\ Unique(world_enemies)
          /\ Unique(world_items)
          /\ Unique(world_locations)
          /\ session = "running" =>
                \A name \in FoundNames :
                    LET items == find_item(Self, name).world_items
                    IN  Unique(items) /\ Grown(world_items, items))
    /\ [][/\ Grown(world_enemies, world_enemies')
          /\ Grown(world_items, world_items')
          /\ Grown(world_locations, world_locations')]_vars

\* the Charm was found twice, under two spellings, and is once in the
\* registry; a fight followed and ended in a defeat that cost one of the two
C25_Witness ==
    /\ last.op = "combat_turn"
    /\ "resolve_combat" \in Range(last.calls)
    /\ Len(world_items) = 5
    /\ world_items[5].name = <<"Charm">>
    /\ Len(player.inventory) = 1
    /\ turn_count = 2

\* what one player attack takes from the enemy's health
Damage(roll, defense) == IF roll - (defense \div 2) > 1 THEN roll - (defense \div 2) ELSE 1
Taken(roll, defense, critical) ==
    Damage(roll, defense) + (IF critical THEN Damage(roll, defense) \div 2 ELSE 0)

\* the enemy defenses an attack is tried against in a state: at the start of an
\* encounter every value up to the cap, later the enemy's own
EnemyDefenses == IF rounds = 0 THEN 0..MaxStat ELSE {current_enemy[1].defense}

\* C26: for every player attack value, enemy defense and roll in
\* [attack // 2, attack], one player attack lowers the enemy's health by exactly
\* damage = max(1, roll - defense // 2) without a critical and by exactly
\* damage + damage // 2 with one, the bonus taken from the damage already
\* computed; with attack 10, defense 4 and the highest roll, 10, the damage
\* without a critical is 8.  A turn of attack that leaves the fight on has
\* lowered the enemy's health by what one roll of the range takes.
C26_AttackDamageExact ==
    /\ []((in_combat /\ session = "running") =>
            /\ \A attack \in AttackValues, defense \in EnemyDefenses :
                  \A roll \in RandInt(attack \div 2, attack), critical \in BOOLEAN :
                     LET before == [Self EXCEPT !.player.attack = attack,
                                                !.current_enemy[1].defense = defense]
                         after == player_attack(before, roll, critical)
                     IN  /\ after.current_enemy[1].health =
                               current_enemy[1].health - Taken(roll, defense, critical)
                         /\ after.player = before.player
            /\ LET before == [Self EXCEPT !.player.attack = 10,
                                          !.current_enemy[1].defense = 4]
               IN  /\ 10 \in RandInt(10 \div 2, 10)
                   /\ \A roll \in RandInt(10 \div 2, 10) : roll <= 10
                   /\ player_attack(before, 10, FALSE).current_enemy[1].health =
                          current_enemy[1].health - 8)
    /\ [][(CombatStep("attack") /\ in_combat') =>
            \E roll \in RandInt(player.attack \div 2, player.attack),
               critical \in BOOLEAN :
                current_enemy'[1].health =
                    current_enemy[1].health
                        - Taken(roll, current_enemy[1].defense, critical)]_vars

\* the Shade of difficulty 1 took the highest roll of an attack of 10 and the
\* critical bonus in the first turn: 9 and 4 of its 20 health are gone
C26_Witness ==
    /\ last.op = "combat_turn"
    /\ Dispatch(last.input) = "attack"
    /\ rounds = 1
    /\ in_combat
    /\ current_enemy[1].name = <<"Shade">>
    /\ current_enemy[1].defense = 3
    /\ current_enemy[1].health = 20 - 9 - 4

\* the game is in combat and waits for the player's next action
AwaitingAction(g) == g.in_combat /\ g.session = "running"

\* both fighters stand
BothStand(g) ==
    /\ g.player.health > 0
    /\ g.current_enemy # <<>>
    /\ g.current_enemy[1].health > 0

\* the healths a combat turn is tried with in a state: at the start of an
\* encounter the fighter's own and the least a standing fighter has, later
\* the fighter's own
HealthsLeft(health) == IF rounds = 0 THEN {health, 1} ELSE {health}

\* C27: provided every enemy template has health > 0, whenever the game is in
\* combat and waits for the player's next action, the player's health and the
\* enemy's are both above 0; no combat turn, whatever the input and the draws,
\* and however little health either fighter had left, ends with in_combat true
\* and a health at 0 or below.
C27_BothStandInCombat ==
    []((\A i \in DOMAIN world_enemies : world_enemies[i].health > 0) =>
        (AwaitingAction(Self) =>
            /\ BothStand(Self)
            /\ \A action \in CombatInputs,
                  health \in HealthsLeft(player.health),
                  enemy_health \in HealthsLeft(current_enemy[1].health) :
                  LET g == [Self EXCEPT !.player.health = health,
                                        !.current_enemy[1].health = enemy_health]
                  IN  \A a \in ActionDraws(g, action) :
                         \A f \in FinishDraws(combat_action(g, action, a), action) :
                            LET after == combat_turn(g, action, TurnDraws(a, f))
                            IN  after.in_combat => BothStand(after)))

\* two turns into a fight both fighters are hurt, and both stand
C27_Witness ==
    /\ in_combat
    /\ session = "running"
    /\ rounds = 2
    /\ last.op = "combat_turn"
    /\ player.health > 0
    /\ player.health < player.max_health
    /\ current_enemy[1].health > 0
    /\ current_enemy[1].health < 20 * current_enemy[1].difficulty

\* the health the enemy of the session began the encounter with: that of its
\* template, or 20 * difficulty when it was synthesized
InitialHealth ==
    LET i == FirstNamed(world_enemies, current_enemy[1].name)
    IN  IF i # 0 THEN world_enemies[i].health ELSE 20 * current_enemy[1].difficulty

\* C28: if the player attacks on every combat turn, the encounter eventually
\* resolves, in victory or in defeat, and the game is back in exploration; for
\* an enemy of initial health H this takes at most H attack turns, as each
\* attack lowers the enemy's health by at least 1: after n attack turns of a
\* fight that is still on the enemy has at most H - n health, and no attack
\* turn is the (H + 1)-th.
C28_AttackResolves ==
    /\ [](AwaitingAction(Self) =>
            /\ current_enemy[1].health <= InitialHealth - rounds
            /\ rounds < InitialHealth)
    /\ [][(in_combat /\ CombatStep("attack")) =>
            /\ rounds' = rounds + 1
            /\ rounds' <= InitialHealth
            /\ in_combat' => current_enemy'[1].health <= current_enemy[1].health - 1]_vars
    /\ (in_combat ~> (/\ ~in_combat
                      /\ session = "running"
                      /\ last.op = "combat_turn"
                      /\ "resolve_combat" \in Range(last.calls)))

\* the Turtle, of health 3 and a shell that lets one point through, fell to
\* the third attack
C28_Witness ==
    /\ ~in_combat
    /\ session = "running"
    /\ last.op = "combat_turn"
    /\ rounds = Turtle.health
    /\ knowledge_base[Len(knowledge_base)] = VictoryEntry(turn_count, Turtle.name)

\* the turn number an entry of the knowledge log carries
TurnOf(entry) == CHOOSE n \in 0..(MaxLongTurn + 1) : ToString(n) = entry[2]

\* the step processed an exploration action: process_player_action ran
Processed ==
    last'.op = "exploration_turn" /\ "process_player_action" \in Range(last'.calls)

\* the entries the log gained, given the log before and the log after
Gained(before, after) ==
    {after[i] : i \in (Len(before) + 1)..Len(after)}

\* C29: turn_count never decreases and changes only by +1 per processed
\* exploration action; combat turns, the directives and the resolution of a
\* fight leave it unchanged, so the entries logged during one encounter carry
\* one turn number, the turn numbers are non-decreasing along the log, and the
\* flee chance 0.6 + turn_count / 100 is constant within an encounter and >= 1,
\* so that a flee attempt cannot fail, when the encounter began at
\* turn_count >= 40.
C29_TurnCountFrame ==
    /\ [][/\ Processed => turn_count' = turn_count + 1
          /\ ~Processed => turn_count' = turn_count
          /\ last'.op = "combat_turn" =>
                \A entry \in Gained(knowledge_base, knowledge_base') :
                    TurnOf(entry) = turn_count
          /\ (CombatStep("flee") /\ turn_count >= 40) => last'.hits = <<>>]_vars
    /\ [](/\ \A i \in 1..(Len(knowledge_base) - 1) :
                TurnOf(knowledge_base[i]) <= TurnOf(knowledge_base[i + 1])
          /\ AwaitingAction(Self) =>
                /\ knowledge_base[Len(knowledge_base)] =
                      Entry(turn_count,
                            <<"Encountered and fought ">> \o current_enemy[1].name)
                /\ {a.escaped : a \in ActionDraws(Self, <<"flee">>)} =
                      IF turn_count >= 40 THEN {TRUE} ELSE BOOLEAN
                /\ \A action \in CombatInputs,
                      health \in {player.health, 1},
                      enemy_health \in {current_enemy[1].health, 1} :
                      LET g == [Self EXCEPT !.player.health = health,
                                            !.current_enemy[1].health = enemy_health]
                      IN  \A a \in ActionDraws(g, action) :
                             \A f \in FinishDraws(combat_action(g, action, a), action) :
                                LET after == combat_turn(g, action, TurnDraws(a, f))
                                IN  /\ after.turn_count = turn_count
                                    /\ \A entry \in Gained(knowledge_base,
                                                           after.knowledge_base) :
                                          TurnOf(entry) = turn_count)

\* an encounter began at turn 40 and the player ran: no blow punished the
\* attempt
C29_Witness ==
    /\ last.op = "combat_turn"
    /\ Dispatch(last.input) = "flee"
    /\ turn_count = 40
    /\ last.hits = <<>>
    /\ ~in_combat
    /\ knowledge_base[Len(knowledge_base)] =
          Entry(40, <<"Encountered and fought ", "Shade">>)

====
